---- MODULE Spec2Model ----
(***************************************************************************)
(* SmartNotesLLM backend: the natural-language agent (backend/agent.py)    *)
(* and the note routes (backend/routes.py).                                *)
(*                                                                         *)
(* Python strings are sequences of one-character strings, so that          *)
(* lower(), substring tests, split(), strip(), capitalize() and the        *)
(* note-id regular expression are computed character by character.         *)
(* Python / JSON values are tagged records [k |-> kind, v |-> value];      *)
(* a dict is a TLA+ function from key strings to tagged values, and a      *)
(* missing key is a key outside its DOMAIN.                                 *)
(***************************************************************************)
EXTENDS Integers, Sequences, FiniteSets, TLC

VARIABLES
    user_query,     \* agent run: the text handed to NotesAgent.interpret
    agent_pc,       \* agent run: "start" | "queried" | "done"
    agent_llm,      \* agent run: outcome of _query_llm (value or exception)
    agent_note_id,  \* agent run: note_id of _fallback_parse (agent.py:109), <<>> before
    agent_fallback, \* agent run: outcome of _fallback_parse, <<>> before
    agent_out,      \* agent run: what interpret returned or raised
    agent_calls,    \* agent run: requests.post and _fallback_parse calls made so far
    agent_self,     \* the module-level NotesAgent instance: base_url, model, timeout
    calls,          \* concurrent run: the interpret calls in progress on agent_self
    locals,         \* concurrent run: lowered and note_id of each _fallback_parse frame
    notes,          \* committed rows of table notes: note_id -> row
    last_update,    \* per user, the note ids by column last_update, oldest first
    req,            \* the /nl-query request being handled
    session,        \* unit of work of the open SQLAlchemy session
    resp,           \* last HTTP response sent
    front           \* st.session_state of the frontend and the request it is sending

agent_vars == <<user_query, agent_pc, agent_llm, agent_note_id, agent_fallback, agent_out,
                agent_calls>>
store_vars == <<notes, last_update, req, session, resp>>
conc_vars == <<agent_self, calls, locals>>
front_vars == <<front>>
vars == <<user_query, agent_pc, agent_llm, agent_note_id, agent_fallback, agent_out,
          agent_calls, agent_self, calls, locals, notes, last_update, req, session, resp,
          front>>

(***************************************************************************)
(* Bounds                                                                  *)
(***************************************************************************)
\* number of fragments concatenated into one query text of the agent run
MaxFrags == 3
\* largest note_id the table may hold
MaxNoteId == 2
\* number of interpret calls in progress at once in the concurrent run
MaxCalls == 2

(***************************************************************************)
(* Python values                                                           *)
(***************************************************************************)
PyNone == [k |-> "none"]
PyInt(n) == [k |-> "int", v |-> n]
PyStr(s) == [k |-> "str", v |-> s]
PyDict(d) == [k |-> "dict", v |-> d]
\* a JSON array: a value that is neither a dict nor a scalar
JsonList == [k |-> "list"]

\* bool(x) for the values above (if x: ..., x or y)
Truthy(x) ==
    CASE x.k = "none" -> FALSE
      [] x.k = "int"  -> x.v # 0
      [] x.k = "str"  -> x.v # <<>>
      [] x.k = "dict" -> DOMAIN x.v # {}
      [] OTHER        -> TRUE

\* d.get(key, default) on the function d
Get(d, key, default) == IF key \in DOMAIN d THEN d[key] ELSE default

\* x or y
Or(x, y) == IF Truthy(x) THEN x ELSE y

(***************************************************************************)
(* Python str methods, character by character                              *)
(***************************************************************************)
UpperChars == <<"A", "B", "C", "D", "E", "F", "G", "H", "I", "J", "K", "L", "M",
                "N", "O", "P", "Q", "R", "S", "T", "U", "V", "W", "X", "Y", "Z">>
LowerChars == <<"a", "b", "c", "d", "e", "f", "g", "h", "i", "j", "k", "l", "m",
                "n", "o", "p", "q", "r", "s", "t", "u", "v", "w", "x", "y", "z">>
Digits == <<"0", "1", "2", "3", "4", "5", "6", "7", "8", "9">>

LowerMap == [c \in {UpperChars[i] : i \in 1..26} |->
                LowerChars[CHOOSE i \in 1..26 : UpperChars[i] = c]]
UpperMap == [c \in {LowerChars[i] : i \in 1..26} |->
                UpperChars[CHOOSE i \in 1..26 : LowerChars[i] = c]]
DigitMap == [c \in {Digits[i] : i \in 1..10} |->
                (CHOOSE i \in 1..10 : Digits[i] = c) - 1]

lower_char(c) == IF c \in DOMAIN LowerMap THEN LowerMap[c] ELSE c
upper_char(c) == IF c \in DOMAIN UpperMap THEN UpperMap[c] ELSE c
is_digit(c) == c \in DOMAIN DigitMap
is_space(c) == c = " "

\* str.lower()
lower(s) == [i \in 1..Len(s) |-> lower_char(s[i])]

\* s.startswith(sub, i-1): sub occurs in s at (1-based) position i
occurs_at(s, sub, i) ==
    /\ i >= 1
    /\ i + Len(sub) - 1 <= Len(s)
    /\ \A j \in 1..Len(sub) : s[i + j - 1] = sub[j]

\* s.find(sub), 1-based; 0 when sub does not occur
find(s, sub) ==
    LET hits == {i \in 1..(Len(s) + 1) : occurs_at(s, sub, i)}
    IN IF hits = {} THEN 0 ELSE CHOOSE i \in hits : \A j \in hits : i <= j

\* sub in s
contains(s, sub) == find(s, sub) # 0

\* any(word in s for word in words)
any_in(s, words) == \E w \in words : contains(s, w)

\* s.split(sep, 1): a list of one or two strings
split_once(s, sep) ==
    LET i == find(s, sep)
    IN IF i = 0 THEN <<s>>
       ELSE <<SubSeq(s, 1, i - 1), SubSeq(s, i + Len(sep), Len(s))>>

\* s.strip()
strip(s) ==
    LET keep == {i \in 1..Len(s) : ~is_space(s[i])}
    IN IF keep = {} THEN <<>>
       ELSE SubSeq(s, CHOOSE i \in keep : \A j \in keep : i <= j,
                      CHOOSE i \in keep : \A j \in keep : i >= j)

\* s.capitalize(): first character upper case, the rest lower case
capitalize(s) ==
    IF s = <<>> THEN <<>>
    ELSE <<upper_char(s[1])>> \o lower(Tail(s))

\* int(s) for a string of decimal digits
RECURSIVE parse_int(_)
parse_int(s) ==
    IF s = <<>> THEN 0
    ELSE 10 * parse_int(SubSeq(s, 1, Len(s) - 1)) + DigitMap[s[Len(s)]]

\* str(n) for n >= 0, as the f-string renders it
RECURSIVE int_to_str(_)
int_to_str(n) ==
    IF n < 10 THEN <<Digits[n + 1]>>
    ELSE int_to_str(n \div 10) \o <<Digits[(n % 10) + 1]>>

(***************************************************************************)
(* backend/agent.py                                                        *)
(***************************************************************************)
kw_note == <<"n", "o", "t", "e">>
kw_about == <<" ", "a", "b", "o", "u", "t", " ">>
kw_create == <<"c", "r", "e", "a", "t", "e">>
kw_add == <<"a", "d", "d">>
kw_new == <<"n", "e", "w">>
kw_remember == <<"r", "e", "m", "e", "m", "b", "e", "r">>
kw_update == <<"u", "p", "d", "a", "t", "e">>
kw_change == <<"c", "h", "a", "n", "g", "e">>
kw_edit == <<"e", "d", "i", "t">>
kw_delete == <<"d", "e", "l", "e", "t", "e">>
kw_remove == <<"r", "e", "m", "o", "v", "e">>
kw_clear == <<"c", "l", "e", "a", "r">>
kw_trash == <<"t", "r", "a", "s", "h">>
kw_show == <<"s", "h", "o", "w">>
kw_view == <<"v", "i", "e", "w">>
kw_read == <<"r", "e", "a", "d">>
kw_detail == <<"d", "e", "t", "a", "i", "l">>
kw_list == <<"l", "i", "s", "t">>
kw_all == <<"a", "l", "l">>
kw_display == <<"d", "i", "s", "p", "l", "a", "y">>
str_General == <<"G", "e", "n", "e", "r", "a", "l">>
str_Reminder_about == <<"R", "e", "m", "i", "n", "d", "e", "r", " ", "a",
    "b", "o", "u", "t", " ">>
sum_default == <<"F", "a", "l", "l", "b", "a", "c", "k", " ", "k", "e", "y",
    "w", "o", "r", "d", " ", "i", "n", "t", "e", "r", "p", "r", "e", "t",
    "a", "t", "i", "o", "n", ";", " ", "p", "l", "e", "a", "s", "e", " ",
    "v", "e", "r", "i", "f", "y", " ", "i", "n", "t", "e", "n", "t", ".">>
sum_created == <<"C", "r", "e", "a", "t", "e", "d", " ", "n", "o", "t", "e",
    " ", "u", "s", "i", "n", "g", " ", "h", "e", "u", "r", "i", "s", "t",
    "i", "c", ".">>
sum_update_for == <<"U", "p", "d", "a", "t", "e", " ", "n", "o", "t", "e",
    " ", "h", "e", "u", "r", "i", "s", "t", "i", "c", " ", "f", "o", "r",
    " ", "n", "o", "t", "e", " ">>
sum_update_ask == <<"U", "p", "d", "a", "t", "e", " ", "n", "o", "t", "e",
    " ", "h", "e", "u", "r", "i", "s", "t", "i", "c", ";", " ", "p", "l",
    "e", "a", "s", "e", " ", "s", "p", "e", "c", "i", "f", "y", " ", "d",
    "e", "t", "a", "i", "l", "s", ".">>
sum_delete_for == <<"D", "e", "l", "e", "t", "e", " ", "n", "o", "t", "e",
    " ", "h", "e", "u", "r", "i", "s", "t", "i", "c", " ", "f", "o", "r",
    " ", "n", "o", "t", "e", " ">>
sum_delete_ask == <<"D", "e", "l", "e", "t", "e", " ", "n", "o", "t", "e",
    " ", "h", "e", "u", "r", "i", "s", "t", "i", "c", ";", " ", "p", "l",
    "e", "a", "s", "e", " ", "c", "o", "n", "f", "i", "r", "m", " ", "d",
    "e", "t", "a", "i", "l", "s", ".">>
sum_read_for == <<"R", "e", "a", "d", " ", "n", "o", "t", "e", " ", "h", "e",
    "u", "r", "i", "s", "t", "i", "c", " ", "f", "o", "r", " ", "n", "o",
    "t", "e", " ">>
sum_listing == <<"L", "i", "s", "t", "i", "n", "g", " ", "n", "o", "t", "e",
    "s", ".">>

CreateWords == {kw_create, kw_add, kw_new, kw_remember}
UpdateWords == {kw_update, kw_change, kw_edit}
DeleteWords == {kw_delete, kw_remove, kw_clear, kw_trash}
ReadWords == {kw_show, kw_view, kw_read, kw_detail}
ListWords == {kw_list, kw_all, kw_display}

\* the class [\s#-] of the note-id pattern
is_sep(c) == is_space(c) \/ c = "#" \/ c = "-"

\* first position >= j of text that is not in [\s#-] (Len + 1 if none)
skip_seps(text, j) ==
    CHOOSE m \in j..(Len(text) + 1) :
        /\ \A x \in j..(m - 1) : is_sep(text[x])
        /\ (m = Len(text) + 1 \/ ~is_sep(text[m]))

\* last position of the run of digits starting at j
digits_end(text, j) ==
    CHOOSE e \in j..Len(text) :
        /\ \A x \in j..e : is_digit(text[x])
        /\ (e = Len(text) \/ ~is_digit(text[e + 1]))

\* note[\s#-]*(\d+) matches at position i
note_pattern_at(text, i) ==
    /\ occurs_at(text, kw_note, i)
    /\ LET j == skip_seps(text, i + Len(kw_note))
       IN j <= Len(text) /\ is_digit(text[j])

\* _extract_note_id taking the last match of the pattern in the text
\* instead of the first
extract_note_id_last_match(text) ==
    LET hits == {i \in 1..Len(text) : note_pattern_at(text, i)}
    IN IF hits = {} THEN PyNone
       ELSE LET i == CHOOSE h \in hits : \A g \in hits : h >= g
                j == skip_seps(text, i + Len(kw_note))
            IN PyInt(parse_int(SubSeq(text, j, digits_end(text, j))))

\* NotesAgent._extract_note_id: re.search takes the leftmost match,
\* group 1 is the whole run of digits, int() turns it into a number
extract_note_id(text) ==
    LET hits == {i \in 1..Len(text) : note_pattern_at(text, i)}
    IN IF hits = {} THEN PyNone
       ELSE LET i == CHOOSE h \in hits : \A g \in hits : h <= g
                j == skip_seps(text, i + Len(kw_note))
            IN PyInt(parse_int(SubSeq(text, j, digits_end(text, j))))

\* the dict of agent.py:111-118 with an empty string, not None, as the
\* topic of filters
fallback_default_empty_filter(note_id) ==
    [action   |-> PyStr(kw_list),
     topic    |-> PyNone,
     message  |-> PyNone,
     note_id  |-> note_id,
     filters  |-> PyDict([topic |-> PyStr(<<>>)]),
     summary  |-> PyStr(sum_default)]

\* the dict _fallback_parse starts from (agent.py:111-118)
fallback_default(note_id) ==
    [action   |-> PyStr(kw_list),
     topic    |-> PyNone,
     message  |-> PyNone,
     note_id  |-> note_id,
     filters  |-> PyDict([topic |-> PyNone]),
     summary  |-> PyStr(sum_default)]

\* f"... for note {note_id}." if note_id else "..."
id_summary(note_id, for_prefix, ask) ==
    IF Truthy(note_id)
    THEN PyStr(for_prefix \o int_to_str(note_id.v) \o <<".">>)
    ELSE PyStr(ask)

\* agent.py:111-155, _fallback_parse after its locals lowered and note_id
\* are set: [raised |-> FALSE, v |-> dict] or the exception that leaves it
fallback_classify(query, lowered, note_id) ==
    LET result == fallback_default(note_id)
    IN IF any_in(lowered, CreateWords) THEN
            IF contains(lowered, kw_about) THEN
                LET parts == split_once(query, kw_about)
                IN IF Len(parts) < 2
                   THEN [raised |-> TRUE, exc |-> "IndexError"]
                   ELSE LET topic == capitalize(strip(parts[2]))
                        IN [raised |-> FALSE,
                            v |-> [result EXCEPT
                                    !.action  = PyStr(kw_create),
                                    !.topic   = PyStr(topic),
                                    !.message = PyStr(str_Reminder_about \o topic),
                                    !.summary = PyStr(sum_created)]]
            ELSE [raised |-> FALSE,
                  v |-> [result EXCEPT
                          !.action  = PyStr(kw_create),
                          !.topic   = PyStr(str_General),
                          !.message = PyStr(query),
                          !.summary = PyStr(sum_created)]]
       ELSE IF any_in(lowered, UpdateWords) THEN
            [raised |-> FALSE,
             v |-> [result EXCEPT
                     !.action  = PyStr(kw_update),
                     !.summary = id_summary(note_id, sum_update_for, sum_update_ask)]]
       ELSE IF any_in(lowered, DeleteWords) THEN
            [raised |-> FALSE,
             v |-> [result EXCEPT
                     !.action  = PyStr(kw_delete),
                     !.summary = id_summary(note_id, sum_delete_for, sum_delete_ask)]]
       ELSE IF any_in(lowered, ReadWords) THEN
            [raised |-> FALSE,
             v |-> [result EXCEPT
                     !.action  = IF Truthy(note_id) THEN PyStr(kw_read) ELSE PyStr(kw_list),
                     !.summary = id_summary(note_id, sum_read_for, sum_listing)]]
       ELSE IF any_in(lowered, ListWords) THEN
            [raised |-> FALSE,
             v |-> [result EXCEPT
                     !.action  = PyStr(kw_list),
                     !.summary = PyStr(sum_listing)]]
       ELSE [raised |-> FALSE, v |-> result]

\* NotesAgent._fallback_parse
fallback_parse(query) ==
    fallback_classify(query, lower(query), extract_note_id(lower(query)))

(***************************************************************************)
(* The reply of the generation endpoint.                                   *)
(*   [k |-> "ConnectionError"], [k |-> "Timeout"]   requests.post raises   *)
(*   [k |-> "http", status |-> n, body |-> b]       a response arrived     *)
(* body is [k |-> "notjson"] or [k |-> "json", v |-> value].  A string     *)
(* inside the body that will be handed to json.loads is written            *)
(* [k |-> "jsontext", v |-> value] when it is the JSON text of value and   *)
(* [k |-> "badtext"] when it is non-empty and not JSON; PyStr(<<>>) is     *)
(* the empty string.                                                       *)
(***************************************************************************)
JsonText(value) == [k |-> "jsontext", v |-> value]
BadText == [k |-> "badtext"]

Raise(e) == [raised |-> TRUE, exc |-> e]
Return(x) == [raised |-> FALSE, v |-> x]

\* json.loads(content)
json_loads(content) ==
    CASE content.k = "jsontext" -> Return(content.v)
      [] content.k \in {"badtext", "str"} -> Raise("JSONDecodeError")
      [] OTHER -> Raise("TypeError")

\* NotesAgent._query_llm
query_llm(reply) ==
    IF reply.k \in {"ConnectionError", "Timeout"} THEN Raise(reply.k)
    ELSE IF reply.status >= 400 THEN Raise("HTTPError")
    ELSE IF reply.body.k = "notjson" THEN Raise("JSONDecodeError")
    ELSE LET data == reply.body.v
         IN IF data.k # "dict" THEN Raise("AttributeError")
            ELSE LET first == Get(data.v, "response", PyNone)
                 IN IF Truthy(first) THEN json_loads(first)
                    ELSE LET msg == Get(data.v, "message", PyDict(<<>>))
                         IN IF msg.k # "dict" THEN Raise("AttributeError")
                            ELSE json_loads(Get(msg.v, "content", PyStr(<<>>)))

\* AgentResult(action=d.get("action", "list"), payload=d)
AgentResult(d) == [action |-> Get(d, "action", PyStr(kw_list)), payload |-> d]

\* the try branch of NotesAgent.interpret: response_json.get raises
\* AttributeError unless json.loads produced an object
interpret_try(llm) ==
    IF llm.raised THEN llm
    ELSE IF llm.v.k # "dict" THEN Raise("AttributeError")
    ELSE Return(AgentResult(llm.v.v))

\* the except branch of NotesAgent.interpret: an exception of
\* _fallback_parse is raised inside the handler and leaves interpret
interpret_except(fb) ==
    IF fb.raised THEN fb ELSE Return(AgentResult(fb.v))

\* NotesAgent.interpret
interpret(query, reply) ==
    LET t == interpret_try(query_llm(reply))
    IN IF ~t.raised THEN t ELSE interpret_except(fallback_parse(query))

(***************************************************************************)
(* Inputs of the agent run                                                 *)
(***************************************************************************)
\* pieces of text; a query text is the concatenation of 1..MaxFrags pieces
Frags ==
    { <<"a", "d", "d">>,
      <<" ", "a", "b", "o", "u", "t", " ">>,
      <<" ", "A", "B", "O", "U", "T", " ">>,
      <<"n", "o", "t", "e", " ">>,
      <<"N", "o", "t", "e", "#">>,
      <<"n", "o", "t", "e", "-", "7">>,
      <<"7">>,
      <<"0">>,
      <<"D", "e", "l", "e", "t", "e">>,
      <<"s", "h", "o", "w">>,
      <<"e", "d", "i", "t">>,
      <<"T", "a", "x", "e", "s">>,
      <<"a", "l", "l">> }

RECURSIVE TextsOfLen(_)
TextsOfLen(n) ==
    IF n = 0 THEN {<<>>}
    ELSE {f \o t : f \in Frags, t \in TextsOfLen(n - 1)}

AgentTexts == UNION {TextsOfLen(n) : n \in 1..MaxFrags}

str_work == <<"w", "o", "r", "k">>
str_purge == <<"p", "u", "r", "g", "e">>
str_Home == <<"H", "o", "m", "e">>
str_ok == <<"o", "k">>

\* a reply object that matches the schema of SYSTEM_PROMPT
WellFormedIntent ==
    [action  |-> PyStr(kw_read),
     topic   |-> PyNone,
     message |-> PyNone,
     note_id |-> PyInt(1),
     filters |-> PyDict([topic |-> PyStr(str_work)]),
     summary |-> PyStr(str_ok)]

\* reply objects that parse as JSON but do not match the schema
MalformedIntents ==
    { <<>>,
      [action |-> PyStr(str_purge), summary |-> PyStr(<<>>)],
      [action |-> PyNone, note_id |-> PyInt(1), filters |-> PyNone],
      [action |-> PyStr(kw_delete), note_id |-> PyInt(1)] }

Http(status, body) == [k |-> "http", status |-> status, body |-> body]
JsonBody(value) == [k |-> "json", v |-> value]
GenerateReply(content) == Http(200, JsonBody(PyDict([response |-> content])))
ChatReply(content) ==
    Http(200, JsonBody(PyDict([message |-> PyDict([content |-> content])])))

AgentReplies ==
    { [k |-> "ConnectionError"],
      [k |-> "Timeout"],
      Http(500, [k |-> "notjson"]),
      Http(200, [k |-> "notjson"]),
      Http(200, JsonBody(JsonList)),
      Http(200, JsonBody(PyDict(<<>>))),
      Http(200, JsonBody(PyDict([message |-> PyNone]))),
      GenerateReply(BadText),
      GenerateReply(JsonText(JsonList)),
      GenerateReply(JsonText(PyNone)),
      GenerateReply(JsonText(PyDict(WellFormedIntent))),
      ChatReply(JsonText(PyDict(WellFormedIntent))) }
    \cup {GenerateReply(JsonText(PyDict(d))) : d \in MalformedIntents}

(***************************************************************************)
(* The agent run: one call of NotesAgent.interpret, statement by statement *)
(***************************************************************************)
\* NotesAgent.__init__ with the default settings of config.py
NotesAgent ==
    [base_url |-> "http://localhost:11434", model |-> "llama3", timeout |-> 120]

Users == {1, 2}
\* no note carries a last_update
NoStamps == [u \in Users |-> <<>>]
IdleReq == [pc |-> "idle"]
NoCalls == [post |-> 0, fallback |-> 0]
\* a request of user u to a route that answers in one step has been served
Served(u, endpoint) == [pc |-> "served", user_id |-> u, endpoint |-> endpoint]
\* the same for the routes /notes/<note_id>, with the id of the URL and the
\* validated body
ServedNote(u, endpoint, note_id, data) ==
    [pc |-> "served", user_id |-> u, endpoint |-> endpoint, note_id |-> note_id,
     data |-> data]
NoSession == [open |-> FALSE]
NoResp == [status |-> 0]
\* ensure_session_defaults for user u logged in: nothing pending, no widget
\* used yet, no request being sent; undo_shown and edit_shown tell whether
\* the last script run rendered the blocks above the assistant form
NoFront(u) ==
    [user |-> u, pending_delete_note |-> <<>>, pending_edit_note |-> <<>>,
     pending_note_details |-> <<>>, event |-> "", query |-> <<>>, out |-> <<>>,
     undo_shown |-> FALSE, edit_shown |-> FALSE]

AgentInit ==
    /\ user_query \in AgentTexts
    /\ agent_pc = "start"
    /\ agent_llm = <<>>
    /\ agent_note_id = <<>>
    /\ agent_fallback = <<>>
    /\ agent_out = <<>>
    /\ agent_calls = NoCalls
    /\ agent_self = NotesAgent
    /\ calls = <<>>
    /\ locals = <<>>
    /\ notes = <<>>
    /\ last_update = NoStamps
    /\ req = IdleReq
    /\ session = NoSession
    /\ resp = NoResp
    /\ front = NoFront(1)

\* agent.py:72, the call self._query_llm(user_query)
AgentQueryLlm(reply) ==
    /\ agent_pc = "start"
    /\ agent_llm' = <<query_llm(reply)>>
    /\ agent_pc' = "queried"
    /\ agent_calls' = [agent_calls EXCEPT !.post = @ + 1]
    /\ UNCHANGED <<user_query, agent_note_id, agent_fallback, agent_out>>
    /\ UNCHANGED store_vars
    /\ UNCHANGED conc_vars
    /\ UNCHANGED front_vars

\* agent.py:73-76, the return inside try
AgentReturn ==
    /\ agent_pc = "queried"
    /\ ~interpret_try(agent_llm[1]).raised
    /\ agent_out' = <<interpret_try(agent_llm[1])>>
    /\ agent_pc' = "done"
    /\ UNCHANGED <<user_query, agent_llm, agent_note_id, agent_fallback, agent_calls>>
    /\ UNCHANGED store_vars
    /\ UNCHANGED conc_vars
    /\ UNCHANGED front_vars

\* the except branch with one retry of the request before the fallback:
\* after the first failure control goes back to the call of _query_llm
AgentFallback_after_retry ==
    /\ agent_pc = "queried"
    /\ interpret_try(agent_llm[1]).raised
    /\ IF agent_calls.post < 2
       THEN /\ agent_pc' = "start"
            /\ UNCHANGED <<agent_note_id, agent_fallback, agent_out, agent_calls>>
       ELSE /\ agent_note_id' = <<extract_note_id(lower(user_query))>>
            /\ agent_fallback' = <<fallback_parse(user_query)>>
            /\ agent_out' = <<interpret_except(fallback_parse(user_query))>>
            /\ agent_calls' = [agent_calls EXCEPT !.fallback = @ + 1]
            /\ agent_pc' = "done"
    /\ UNCHANGED <<user_query, agent_llm>>
    /\ UNCHANGED store_vars
    /\ UNCHANGED conc_vars
    /\ UNCHANGED front_vars

\* agent.py:77-79, the except branch
AgentFallback ==
    /\ agent_pc = "queried"
    /\ interpret_try(agent_llm[1]).raised
    /\ agent_note_id' = <<extract_note_id(lower(user_query))>>
    /\ agent_fallback' = <<fallback_parse(user_query)>>
    /\ agent_out' = <<interpret_except(fallback_parse(user_query))>>
    /\ agent_calls' = [agent_calls EXCEPT !.fallback = @ + 1]
    /\ agent_pc' = "done"
    /\ UNCHANGED <<user_query, agent_llm>>
    /\ UNCHANGED store_vars
    /\ UNCHANGED conc_vars
    /\ UNCHANGED front_vars

AgentNext ==
    \/ \E reply \in AgentReplies : AgentQueryLlm(reply)
    \/ AgentReturn
    \/ AgentFallback

AgentSpec == AgentInit /\ [][AgentNext]_vars

(***************************************************************************)
(* The concurrent run: MaxCalls request threads call interpret on the one  *)
(* NotesAgent instance of routes.py:29, their statements interleaved.      *)
(* Every call has its own frame of locals; the instance is shared.         *)
(***************************************************************************)
Calls == 1..MaxCalls

\* the texts and the LLM replies of the concurrent calls
ConcurrentTexts == TextsOfLen(1)
ConcurrentReplies ==
    {[k |-> "Timeout"], GenerateReply(JsonText(PyDict(WellFormedIntent)))}

\* all calls keeping lowered and note_id in one place, as attributes of
\* the shared instance would be
frame_on_instance(c) == 1

\* the frame that holds the locals of call c: its own
frame_of(c) == c

NoLocals == [set |-> FALSE]

ConcurrentInit ==
    /\ user_query = <<>>
    /\ agent_pc = "off"
    /\ agent_llm = <<>>
    /\ agent_note_id = <<>>
    /\ agent_fallback = <<>>
    /\ agent_out = <<>>
    /\ agent_calls = NoCalls
    /\ agent_self = NotesAgent
    /\ calls \in [Calls -> {[pc |-> "start", user_query |-> t, llm |-> <<>>, out |-> <<>>] :
                                t \in ConcurrentTexts}]
    /\ locals = [f \in Calls |-> NoLocals]
    /\ notes = <<>>
    /\ last_update = NoStamps
    /\ req = IdleReq
    /\ session = NoSession
    /\ resp = NoResp
    /\ front = NoFront(1)

\* agent.py:72 and 81-96 in call c: the request is built from the fields
\* of the instance
CallQueryLlm(c, reply) ==
    /\ calls[c].pc = "start"
    /\ agent_self = NotesAgent
    /\ calls' = [calls EXCEPT ![c].pc = "queried", ![c].llm = <<query_llm(reply)>>]
    /\ UNCHANGED <<agent_self, locals>>
    /\ UNCHANGED <<agent_vars, store_vars>>
    /\ UNCHANGED front_vars

\* agent.py:73-76 in call c
CallReturn(c) ==
    /\ calls[c].pc = "queried"
    /\ ~interpret_try(calls[c].llm[1]).raised
    /\ calls' = [calls EXCEPT ![c].pc = "done", ![c].out = <<interpret_try(calls[c].llm[1])>>]
    /\ UNCHANGED <<agent_self, locals>>
    /\ UNCHANGED <<agent_vars, store_vars>>
    /\ UNCHANGED front_vars

\* agent.py:77-78 and 108-109 in call c: the except branch enters
\* _fallback_parse, which sets lowered and note_id
CallLower(c) ==
    /\ calls[c].pc = "queried"
    /\ interpret_try(calls[c].llm[1]).raised
    /\ locals' = [locals EXCEPT ![frame_of(c)] =
                    [set |-> TRUE,
                     lowered |-> lower(calls[c].user_query),
                     note_id |-> extract_note_id(lower(calls[c].user_query))]]
    /\ calls' = [calls EXCEPT ![c].pc = "lowered"]
    /\ UNCHANGED agent_self
    /\ UNCHANGED <<agent_vars, store_vars>>
    /\ UNCHANGED front_vars

\* agent.py:111-155 and 79 in call c: the rest of _fallback_parse, on its
\* locals, and the return of interpret
CallClassify(c) ==
    /\ calls[c].pc = "lowered"
    /\ LET frame == locals[frame_of(c)]
           fb == fallback_classify(calls[c].user_query, frame.lowered, frame.note_id)
       IN calls' = [calls EXCEPT ![c].pc = "done", ![c].out = <<interpret_except(fb)>>]
    /\ UNCHANGED <<agent_self, locals>>
    /\ UNCHANGED <<agent_vars, store_vars>>
    /\ UNCHANGED front_vars

ConcurrentNext ==
    \E c \in Calls :
        \/ \E reply \in ConcurrentReplies : CallQueryLlm(c, reply)
        \/ CallReturn(c)
        \/ CallLower(c)
        \/ CallClassify(c)

ConcurrentSpec == ConcurrentInit /\ [][ConcurrentNext]_vars

(***************************************************************************)
(* Properties of the agent run                                             *)
(***************************************************************************)
IntentKeys == {"action", "topic", "message", "note_id", "filters", "summary"}
FiveActions == {kw_create, kw_read, kw_update, kw_delete, kw_list}

\* the Intent schema: action is one of the five, topic and message are
\* strings or null, note_id is an integer or null, filters is an object
\* with a string-or-null topic, summary is a string
MatchesIntentSchema(x) ==
    /\ x.k = "dict"
    /\ IntentKeys \subseteq DOMAIN x.v
    /\ x.v.action.k = "str" /\ x.v.action.v \in FiveActions
    /\ x.v.topic.k \in {"str", "none"}
    /\ x.v.message.k \in {"str", "none"}
    /\ x.v.note_id.k \in {"int", "none"}
    /\ x.v.filters.k = "dict"
    /\ "topic" \in DOMAIN x.v.filters.v
    /\ x.v.filters.v.topic.k \in {"str", "none"}
    /\ x.v.summary.k = "str"

\* the LLM stage failed: transport, status, parsing, or schema mismatch
LlmStageFailed(llm) == llm.raised \/ ~MatchesIntentSchema(llm.v)

\* what the heuristic classifier alone gives for the text
HeuristicOutcome(text) == interpret_except(fallback_parse(text))

\* C1: interpret never raises: whatever the query text and whatever the
\* outcome of the LLM call, a finished interpret has returned an AgentResult.
C1_InterpretNeverRaises ==
    agent_pc = "done" => ~agent_out[1].raised

\* C2: whenever the LLM stage failed, schema mismatch included, the result
\* of interpret is the result of the heuristic classifier on the same text
\* (so nothing of the LLM reply is in it).
C2_FailureYieldsHeuristic ==
    (agent_pc = "done" /\ LlmStageFailed(agent_llm[1]))
        => agent_out = <<HeuristicOutcome(user_query)>>

\* C3: every AgentResult returned by interpret, on the LLM path and on the
\* fallback path, has an action among create, read, update, delete, list.
C3_ActionIsOneOfFive ==
    (agent_pc = "done" /\ ~agent_out[1].raised)
        => /\ agent_out[1].v.action.k = "str"
           /\ agent_out[1].v.action.v \in FiveActions

\* C4: every AgentResult returned by interpret, on the LLM path and on the
\* fallback path, carries a summary that is a non-empty string.
C4_SummaryNonEmpty ==
    (agent_pc = "done" /\ ~agent_out[1].raised)
        => /\ "summary" \in DOMAIN agent_out[1].v.payload
           /\ agent_out[1].v.payload.summary.k = "str"
           /\ agent_out[1].v.payload.summary.v # <<>>

\* C5: _fallback_parse is total: whenever it has been called, for a text in
\* any letter case, it returned a dict with the six intent fields and did
\* not raise.
C5_FallbackParseTotal ==
    agent_fallback # <<>>
        => /\ ~agent_fallback[1].raised
           /\ DOMAIN agent_fallback[1].v = IntentKeys

str_note_sp_7 == <<"n", "o", "t", "e", " ", "7">>
str_note_hash_7 == <<"n", "o", "t", "e", "#", "7">>
str_note_dash_7 == <<"n", "o", "t", "e", "-", "7">>
Note7Forms == {str_note_sp_7, str_note_hash_7, str_note_dash_7}

\* a note reference starts at position h of text: "note", any run of
\* blanks, # and -, then a digit
reference_at(text, h) ==
    /\ occurs_at(text, kw_note, h)
    /\ \E m \in (h + 4)..Len(text) :
            /\ \A x \in (h + 4)..(m - 1) : text[x] \in {" ", "#", "-"}
            /\ text[m] \in {Digits[d] : d \in 1..10}

\* one of the three forms is the first note reference of text (letter case
\* ignored) and no digit follows its 7
first_reference_is_7(text) ==
    \E i \in 1..Len(text), form \in Note7Forms :
        /\ occurs_at(lower(text), form, i)
        /\ (i + 6 <= Len(text) => text[i + 6] \notin {Digits[d] : d \in 1..10})
        /\ \A h \in 1..(i - 1) : ~reference_at(lower(text), h)

\* C15 as claimed: for every text that contains "note 7", "note#7" or
\* "note-7" in any letter case, anywhere, also next to other note
\* references or before further digits, the fallback classifier extracts
\* the note id 7.
C15_AnyNote7Extracts7 ==
    (agent_note_id # <<>> /\ any_in(lower(user_query), Note7Forms))
        => agent_note_id[1] = PyInt(7)

\* C15, amended: for every text whose first note reference is "note 7",
\* "note#7" or "note-7" (any letter case) with no further digit after the
\* 7, the fallback classifier extracts the note id 7.
C15_FirstNote7Extracts7 ==
    (agent_note_id # <<>> /\ first_reference_is_7(user_query))
        => agent_note_id[1] = PyInt(7)

\* the id was extracted from a text that holds an upper-case letter in its
\* first reference, or a second reference to another note after it
C15_Witness ==
    /\ agent_note_id = <<PyInt(7)>>
    /\ first_reference_is_7(user_query)
    /\ \/ ~any_in(user_query, Note7Forms)
       \/ \E h \in 1..Len(user_query) :
            /\ reference_at(lower(user_query), h)
            /\ \A form \in Note7Forms : ~occurs_at(lower(user_query), form, h)

\* the keyword classes in the claimed order of priority, each with the
\* actions its branch may give (the read class gives read or list)
PriorityClasses ==
    << [words |-> CreateWords, actions |-> {kw_create}],
       [words |-> UpdateWords, actions |-> {kw_update}],
       [words |-> DeleteWords, actions |-> {kw_delete}],
       [words |-> ReadWords,   actions |-> {kw_read, kw_list}],
       [words |-> ListWords,   actions |-> {kw_list}] >>

\* the text contains, letter case ignored, a keyword of class c
matches_class(text, c) ==
    \E w \in PriorityClasses[c].words : contains(lower(text), w)

\* C16: the fallback classifier gives every text that matches several
\* keyword classes the action of the first class, in the order create,
\* update, delete, read, list, that the text matches; a text matching
\* create and delete gets create.
C16_FirstMatchingClassWins ==
    agent_fallback # <<>>
        => \A c \in 1..4 :
            (/\ matches_class(user_query, c)
             /\ \A b \in 1..(c - 1) : ~matches_class(user_query, b)
             /\ \E d \in (c + 1)..5 : matches_class(user_query, d))
            => /\ ~agent_fallback[1].raised
               /\ agent_fallback[1].v.action.v \in PriorityClasses[c].actions
               /\ (c = 4 /\ Truthy(agent_fallback[1].v.note_id))
                    => agent_fallback[1].v.action.v = kw_read

\* the portion of text after its first " about ", without the blanks
\* around it, capitalized
topic_after_about(text) ==
    LET i == CHOOSE k \in 1..Len(text) :
                /\ occurs_at(text, kw_about, k)
                /\ \A h \in 1..(k - 1) : ~occurs_at(text, kw_about, h)
    IN capitalize(strip(SubSeq(text, i + Len(kw_about), Len(text))))

\* C17: for a text with a create keyword the fallback classifier returns
\* action create; if the text contains " about ", topic is the portion of
\* the text after the first " about ", capitalized, and message is
\* "Reminder about " followed by that topic; otherwise topic is "General"
\* and message is the original text.
C17_CreateTopicAndMessage ==
    (agent_fallback # <<>> /\ any_in(lower(user_query), CreateWords))
        => /\ ~agent_fallback[1].raised
           /\ agent_fallback[1].v.action = PyStr(kw_create)
           /\ IF \E k \in 1..Len(user_query) : occurs_at(user_query, kw_about, k)
              THEN /\ agent_fallback[1].v.topic = PyStr(topic_after_about(user_query))
                   /\ agent_fallback[1].v.message =
                        PyStr(str_Reminder_about \o topic_after_about(user_query))
              ELSE /\ agent_fallback[1].v.topic = PyStr(str_General)
                   /\ agent_fallback[1].v.message = PyStr(user_query)

\* C18: for a text with a read keyword and no create, update or delete
\* keyword, the fallback action is read when a note id was extracted from
\* the text, whatever integer it is, 0 included, and list when none was.
C18_ReadIffIdExtracted ==
    (/\ agent_fallback # <<>>
     /\ any_in(lower(user_query), ReadWords)
     /\ ~any_in(lower(user_query), CreateWords \cup UpdateWords \cup DeleteWords))
        => /\ ~agent_fallback[1].raised
           /\ agent_fallback[1].v.action =
                IF agent_note_id[1].k = "int" THEN PyStr(kw_read) ELSE PyStr(kw_list)

str_details == <<"d", "e", "t", "a", "i", "l", "s">>

\* C19: a fallback intent with action update or delete carries the
\* extracted id as note_id; whenever an id was extracted its summary
\* mentions "note <id>", and when none was the summary asks for details.
C19_UpdateDeleteSummary ==
    (/\ agent_fallback # <<>>
     /\ ~agent_fallback[1].raised
     /\ agent_fallback[1].v.action \in {PyStr(kw_update), PyStr(kw_delete)})
        => /\ agent_fallback[1].v.note_id = agent_note_id[1]
           /\ IF agent_note_id[1].k = "int"
              THEN contains(agent_fallback[1].v.summary.v,
                            kw_note \o <<" ">> \o int_to_str(agent_note_id[1].v))
              ELSE contains(agent_fallback[1].v.summary.v, str_details)

\* the text contains no keyword of any class, letter case ignored
no_keyword(text) ==
    ~any_in(lower(text),
            CreateWords \cup UpdateWords \cup DeleteWords \cup ReadWords \cup ListWords)

\* C20: for a text that matches no keyword class the fallback classifier
\* returns action list, topic null, message null and the generic fallback
\* summary; and every intent the fallback classifier returns, for any
\* text, has filters.topic null.
C20_DefaultIntent ==
    agent_fallback # <<>>
        => /\ no_keyword(user_query)
                => /\ ~agent_fallback[1].raised
                   /\ agent_fallback[1].v.action = PyStr(kw_list)
                   /\ agent_fallback[1].v.topic = PyNone
                   /\ agent_fallback[1].v.message = PyNone
                   /\ agent_fallback[1].v.summary = PyStr(sum_default)
           /\ ~agent_fallback[1].raised
                => /\ agent_fallback[1].v.filters.k = "dict"
                   /\ DOMAIN agent_fallback[1].v.filters.v = {"topic"}
                   /\ agent_fallback[1].v.filters.v.topic = PyNone

\* the fallback classifier returned for a text without keyword that names
\* a note
C20_Witness ==
    /\ agent_fallback # <<>>
    /\ ~agent_fallback[1].raised
    /\ no_keyword(user_query)
    /\ agent_fallback[1].v.note_id = PyInt(7)
    /\ contains(user_query, kw_about)

\* at most one request, and after a failed attempt exactly one call of
\* the fallback classifier, however interpret is left
OneAttemptOneFallback ==
    /\ agent_calls.post <= 1
    /\ agent_calls.fallback <= 1
    /\ (agent_pc = "done" /\ interpret_try(agent_llm[1]).raised)
            => agent_calls = [post |-> 1, fallback |-> 1]

\* C21: an interpret call makes at most one LLM request; once the single
\* attempt has failed, whatever the failure, the fallback classifier is
\* called exactly once, no second request is made, and interpret returns.
C21_OneAttemptThenFallback ==
    /\ OneAttemptOneFallback
    /\ (agent_pc = "done" /\ interpret_try(agent_llm[1]).raised)
            => ~agent_out[1].raised

\* call c has returned from the except branch of interpret
fell_back(c) == calls[c].pc = "done" /\ interpret_try(calls[c].llm[1]).raised

\* C22: under every interleaving of the concurrent interpret calls on the
\* shared instance, the result of a call that fell back is the result the
\* fallback classifier gives for that call's own text alone, so two calls
\* with the same text end with the same result; and the fields of the
\* instance keep the values __init__ gave them.
C22_CallsAreIndependent ==
    /\ \A c \in Calls :
            fell_back(c) => calls[c].out = <<HeuristicOutcome(calls[c].user_query)>>
    /\ \A c, d \in Calls :
            (fell_back(c) /\ fell_back(d) /\ calls[c].user_query = calls[d].user_query)
                => calls[c].out = calls[d].out
    /\ agent_self = NotesAgent

\* a call has fallen back while another call, with a text that gives
\* other locals, is between the two parts of _fallback_parse
C22_Witness ==
    \E c, d \in Calls :
        /\ fell_back(c)
        /\ calls[d].pc = "lowered"
        /\ lower(calls[c].user_query) # lower(calls[d].user_query)
        /\ calls[c].out # <<HeuristicOutcome(calls[d].user_query)>>

(***************************************************************************)
(* backend/routes.py over the notes table                                  *)
(*                                                                         *)
(* notes maps each existing note_id to its row.  Requests are handled one  *)
(* at a time.  The /nl-query handler runs statement by statement; its      *)
(* session holds the transaction's working copy of the table, which        *)
(* session_scope commits on a normal exit and discards on an exception.    *)
(* Column last_update is kept as the order of its values: every INSERT and *)
(* UPDATE statement stamps its row with the current time, later than the   *)
(* stamps stored before.  Only the order among the notes of one user is    *)
(* read by the program.                                                    *)
(***************************************************************************)

str_Work == <<"W", "o", "r", "k">>
str_m == <<"m">>
str_wo == <<"w", "o">>
str_underscore == <<"_">>
str_abc == <<"a", "b", "c">>
str_deleted == <<"d", "e", "l", "e", "t", "e", "d">>
q_add == <<"a", "d", "d">>
q_add_ABOUT == <<"a", "d", "d", " ", "A", "B", "O", "U", "T", " ", "x">>
q_delete == <<"D", "e", "l", "e", "t", "e", " ", "n", "o", "t", "e", " ", "1">>
q_edit == <<"e", "d", "i", "t", " ", "n", "o", "t", "e", "-", "2">>
q_show == <<"s", "h", "o", "w", " ", "n", "o", "t", "e", "#", "1">>
q_hi == <<"h", "i">>

Row(u, topic, message) == [user_id |-> u, topic |-> topic, message |-> message]

\* the rows of the table whoever owns them: the queries of the routes
\* without their condition Note.user_id == user_id
owned_by_anyone(table, u) == DOMAIN table

\* the ids of the rows of user u
owned(table, u) == {i \in DOMAIN table : table[i].user_id = u}

\* a DELETE whose condition is note_id <= i instead of note_id = i
without_up_to(table, i) == [j \in {k \in DOMAIN table : k > i} |-> table[j]]

\* table without row i
without(table, i) == [j \in DOMAIN table \ {i} |-> table[j]]

\* the ids a new row may get: above every id in the table (SQLite takes
\* the next one, a sequence may have skipped some)
new_ids(table) == {i \in 1..MaxNoteId : \A j \in DOMAIN table : j < i}

\* SQL LIKE on lower-cased operands: % matches any run of characters,
\* _ matches any one character
RECURSIVE like(_, _)
like(text, pattern) ==
    IF pattern = <<>> THEN text = <<>>
    ELSE IF pattern[1] = "%"
         THEN like(text, Tail(pattern))
              \/ (text # <<>> /\ like(Tail(text), pattern))
    ELSE IF pattern[1] = "_"
         THEN text # <<>> /\ like(Tail(text), Tail(pattern))
    ELSE text # <<>> /\ text[1] = pattern[1] /\ like(Tail(text), Tail(pattern))

\* Note.topic.ilike(f"%{topic_filter}%")
ilike_contains(topic, topic_filter) ==
    like(lower(topic), lower(<<"%">> \o topic_filter \o <<"%">>))

\* .scalars().first() of a query without ORDER BY: rows come in rowid
\* order, so the first row is the one with the lowest note_id
first(ids) == IF ids = {} THEN <<>> ELSE <<CHOOSE i \in ids : \A j \in ids : i <= j>>

\* ORDER BY note_id ASC: the ids as a list in ascending order
RECURSIVE ascending(_)
ascending(ids) ==
    IF ids = {} THEN <<>>
    ELSE LET least == CHOOSE i \in ids : \A j \in ids : i <= j
         IN <<least>> \o ascending(ids \ {least})

\* the rows an INSERT or UPDATE statement was issued for between table
\* before and table after: the unit of work emits no UPDATE for a row
\* whose attributes have their loaded values
written(before, after) ==
    {i \in DOMAIN after : i \notin DOMAIN before \/ after[i] # before[i]}

\* column last_update after the statements that turn table before into
\* table after: default and onupdate stamp the written rows with the
\* current time (models.py:40-45), a deleted row takes its stamp with it
stamped(order, before, after) ==
    [u \in Users |->
        SelectSeq(order[u], LAMBDA j : j \in DOMAIN after /\ j \notin written(before, after))
        \o ascending({i \in written(before, after) : after[i].user_id = u})]

\* the rows of user u ordered as list_notes orders them, by note_id
order_by_note_id(table, order, u) == ascending(owned(table, u))

\* ORDER BY last_update DESC over the rows of user u (routes.py:219-223)
order_by_last_update_desc(table, order, u) ==
    [n \in 1..Len(order[u]) |-> order[u][Len(order[u]) + 1 - n]]

\* serialize_note(note) without index
serialize_note(table, i) ==
    [note_id |-> i, topic |-> table[i].topic, message |-> table[i].message]

\* serialize_note(note, index=n)
serialize_note_indexed(table, i, n) ==
    [note_id |-> i, topic |-> table[i].topic, message |-> table[i].message,
     display_number |-> n]

\* Note.note_id == value with the value bound as it is (routes.py:245):
\* SQLite compares the INTEGER column with an integer, or with the number
\* a string of digits denotes; any other string equals no id
sql_id_equals(i, value) ==
    CASE value.k = "int" -> i = value.v
      [] value.k = "str" ->
            /\ value.v # <<>>
            /\ \A x \in 1..Len(value.v) : is_digit(value.v[x])
            /\ i = parse_int(value.v)
      [] OTHER -> FALSE

\* a value the database driver cannot bind as a statement parameter
unbindable(value) == value.k \in {"list", "dict"}

\* _resolve_note without the condition Note.user_id == user_id of
\* routes.py:243: the note is looked up among the rows of every user
resolve_note_any_owner(table, user_id, payload) ==
    LET note_id == Get(payload, "note_id", PyNone)
        filters == Get(payload, "filters", PyDict(<<>>))
    IN IF filters.k # "dict" THEN Raise("AttributeError")
       ELSE LET topic_filter == Get(filters.v, "topic", PyNone)
            IN IF Truthy(note_id)
               THEN IF unbindable(note_id) THEN Raise("ProgrammingError")
                    ELSE Return(first({i \in DOMAIN table : sql_id_equals(i, note_id)}))
               ELSE IF Truthy(topic_filter)
               THEN Return(first({i \in DOMAIN table :
                                    ilike_contains(table[i].topic, topic_filter.v)}))
               ELSE Return(<<>>)

\* _resolve_note: Return(<<id>>) for a note, Return(<<>>) for None, or the
\* exception raised by .get on a filters value that is not a dict
resolve_note(table, user_id, payload) ==
    LET note_id == Get(payload, "note_id", PyNone)
        filters == Get(payload, "filters", PyDict(<<>>))
    IN IF filters.k # "dict" THEN Raise("AttributeError")
       ELSE LET topic_filter == Get(filters.v, "topic", PyNone)
            IN IF Truthy(note_id)
               THEN IF unbindable(note_id) THEN Raise("ProgrammingError")
                    ELSE Return(first({i \in owned(table, user_id) :
                                         sql_id_equals(i, note_id)}))
               ELSE IF Truthy(topic_filter)
               THEN Return(first({i \in owned(table, user_id) :
                                    ilike_contains(table[i].topic, topic_filter.v)}))
               ELSE Return(<<>>)

\* action == "create" and the like, on a value that may be anything
is_action(a, word) == a.k = "str" /\ a.v = word

\* update_fields with the test "is not None" of the direct PUT in place of
\* the truth test: an empty string overwrites the field
update_fields_not_none(row, payload) ==
    LET topic   == Get(payload, "topic", PyNone)
        message == Get(payload, "message", PyNone)
    IN [row EXCEPT !.topic   = IF topic.k # "none" THEN topic.v ELSE @,
                   !.message = IF message.k # "none" THEN message.v ELSE @]

\* routes.py:197-200, the fields an nl-query update overwrites
update_fields(row, payload) ==
    LET topic   == Get(payload, "topic", PyNone)
        message == Get(payload, "message", PyNone)
    IN [row EXCEPT !.topic   = IF Truthy(topic) THEN topic.v ELSE @,
                   !.message = IF Truthy(message) THEN message.v ELSE @]

\* the JSON body of a completed nl-query (routes.py:189-196, 226-233)
nl_response(action, payload, result, dry_run) ==
    [status |-> 200,
     body   |-> [action        |-> action,
                 agent_summary |-> Get(payload, "summary", PyStr(<<>>)),
                 result        |-> result,
                 dry_run       |-> dry_run]]

not_found == [status |-> 404, body |-> [error |-> "not-found"]]
server_error == [status |-> 500, body |-> [error |-> "internal-server-error"]]
invalid_request == [status |-> 400, body |-> [error |-> "invalid-request"]]

\* nl_apply without the dry_run test of routes.py:188 and 207: the update
\* or delete is applied whatever the flag says
nl_apply_ignoring_dry_run(action, payload, dry_run, target, view) ==
    IF target = <<>> THEN
        [view |-> view, early |-> TRUE, out |-> not_found]
    ELSE IF is_action(action, kw_read) THEN
        [view |-> view, early |-> FALSE, out |-> serialize_note(view, target[1])]
    ELSE IF is_action(action, kw_update) THEN
        LET updated == [view EXCEPT ![target[1]] = update_fields(@, payload)]
        IN [view |-> updated, early |-> FALSE,
            out  |-> serialize_note(updated, target[1])]
    ELSE
        [view |-> without(view, target[1]), early |-> FALSE,
         out  |-> [status |-> str_deleted, note_id |-> target[1]]]

\* nl_apply with the dry_run test of the update branch moved below the
\* assignments of routes.py:197-200: the dry-run response shows the note
\* as the intent would leave it
nl_apply_dry_run_after_assign(action, payload, dry_run, target, view) ==
    IF target = <<>> THEN
        [view |-> view, early |-> TRUE, out |-> not_found]
    ELSE IF is_action(action, kw_read) THEN
        [view |-> view, early |-> FALSE, out |-> serialize_note(view, target[1])]
    ELSE IF is_action(action, kw_update) THEN
        LET updated == [view EXCEPT ![target[1]] = update_fields(@, payload)]
        IN IF dry_run
           THEN [view |-> view, early |-> TRUE,
                 out  |-> nl_response(action, payload, serialize_note(updated, target[1]), TRUE)]
           ELSE [view |-> updated, early |-> FALSE,
                 out  |-> serialize_note(updated, target[1])]
    ELSE IF dry_run THEN
        [view |-> view, early |-> TRUE,
         out  |-> nl_response(action, payload, serialize_note(view, target[1]), TRUE)]
    ELSE
        [view |-> without(view, target[1]), early |-> FALSE,
         out  |-> [status |-> str_deleted, note_id |-> target[1]]]

\* nl_apply without the tests "if not note" of routes.py:181, 186 and 205:
\* a missing target is answered like a completed action, with no note
nl_apply_without_not_found_test(action, payload, dry_run, target, view) ==
    IF target = <<>> THEN
        [view |-> view, early |-> FALSE, out |-> PyNone]
    ELSE IF is_action(action, kw_read) THEN
        [view |-> view, early |-> FALSE, out |-> serialize_note(view, target[1])]
    ELSE IF dry_run THEN
        [view |-> view, early |-> TRUE,
         out  |-> nl_response(action, payload, serialize_note(view, target[1]), TRUE)]
    ELSE IF is_action(action, kw_update) THEN
        LET updated == [view EXCEPT ![target[1]] = update_fields(@, payload)]
        IN [view |-> updated, early |-> FALSE,
            out  |-> serialize_note(updated, target[1])]
    ELSE
        [view |-> without(view, target[1]), early |-> FALSE,
         out  |-> [status |-> str_deleted, note_id |-> target[1]]]

\* routes.py:179-217 after _resolve_note returned target (<<>> or <<id>>):
\* the working copy afterwards, and what the branch produced; early is
\* TRUE when the branch returned its own response from inside the session
nl_apply(action, payload, dry_run, target, view) ==
    IF target = <<>> THEN
        [view |-> view, early |-> TRUE, out |-> not_found]
    ELSE IF is_action(action, kw_read) THEN
        [view |-> view, early |-> FALSE, out |-> serialize_note(view, target[1])]
    ELSE IF dry_run THEN
        [view |-> view, early |-> TRUE,
         out  |-> nl_response(action, payload, serialize_note(view, target[1]), TRUE)]
    ELSE IF is_action(action, kw_update) THEN
        LET updated == [view EXCEPT ![target[1]] = update_fields(@, payload)]
        IN [view |-> updated, early |-> FALSE,
            out  |-> serialize_note(updated, target[1])]
    ELSE
        [view |-> without(view, target[1]), early |-> FALSE,
         out  |-> [status |-> str_deleted, note_id |-> target[1]]]

(***************************************************************************)
(* Inputs of the routes                                                    *)
(***************************************************************************)
Intent(action, note_id, filters, topic, message) ==
    [action  |-> PyStr(action),
     topic   |-> topic,
     message |-> message,
     note_id |-> note_id,
     filters |-> filters,
     summary |-> PyStr(str_ok)]

TopicFilter(x) == PyDict([topic |-> x])

\* note_id and filters of the replies that name a target
TargetParams ==
    ({PyNone} \cup {PyInt(i) : i \in 0..MaxNoteId}) \X {TopicFilter(PyNone)}
    \cup {PyNone} \X {TopicFilter(PyStr(<<>>)), TopicFilter(PyStr(str_wo)),
                      TopicFilter(PyStr(str_underscore)), PyNone}
    \cup {PyInt(i) : i \in 1..MaxNoteId} \X {TopicFilter(PyStr(str_wo))}
    \cup {PyInt(1)} \X {PyNone}
    \cup {PyStr(str_abc)} \X {TopicFilter(PyNone), TopicFilter(PyStr(str_wo))}
    \cup {JsonList} \X {TopicFilter(PyStr(str_wo))}

\* the objects the LLM replies with in the routes run
StorePayloads ==
    {Intent(a, tp[1], tp[2], PyNone, PyNone) : a \in {kw_read, kw_delete}, tp \in TargetParams}
    \cup {Intent(kw_update, tp[1], tp[2], PyStr(str_General), PyStr(q_add)) : tp \in TargetParams}
    \cup {Intent(kw_update, PyInt(1), TopicFilter(PyNone), tm[1], tm[2]) :
            tm \in {<<PyNone, PyNone>>, <<PyStr(str_General), PyNone>>,
                    <<PyStr(<<>>), PyStr(q_add)>>}}
    \cup {Intent(kw_create, PyNone, TopicFilter(PyNone), tm[1], tm[2]) :
            tm \in {<<PyNone, PyNone>>, <<PyStr(str_Work), PyStr(str_m)>>,
                    <<PyStr(<<>>), PyStr(<<>>)>>}}
    \cup {Intent(a, PyNone, TopicFilter(PyNone), PyNone, PyNone) : a \in {kw_list, str_purge}}
    \cup {[action |-> PyStr(kw_delete), note_id |-> PyInt(1)], <<>>}

\* (query text, LLM reply) pairs of the routes run: the LLM answers the text
\* q_add, and is down for the other texts
NlInputs ==
    {<<q_add, GenerateReply(JsonText(PyDict(p)))>> : p \in StorePayloads}
    \cup {<<q, [k |-> "Timeout"]>> :
            q \in {q_add, q_add_ABOUT, q_delete, q_edit, q_show, q_hi}}

NlQueries == {i[1] : i \in NlInputs} \cup {<<>>}

DirectTopics == {str_Work}
DirectMessages == {str_m}
DirectUpdates == {<<PyStr(str_General), PyNone>>, <<PyNone, PyStr(q_add)>>}
\* request.args.get("topic") of GET /notes: absent, or a string
ListFilters == {PyNone, PyStr(str_wo)}

(***************************************************************************)
(* The routes run                                                          *)
(***************************************************************************)
Init ==
    /\ user_query = <<>>
    /\ agent_pc = "off"
    /\ agent_llm = <<>>
    /\ agent_note_id = <<>>
    /\ agent_fallback = <<>>
    /\ agent_out = <<>>
    /\ agent_calls = NoCalls
    /\ agent_self = NotesAgent
    /\ calls = <<>>
    /\ locals = <<>>
    /\ notes = <<>>
    /\ last_update = NoStamps
    /\ req = IdleReq
    /\ session = NoSession
    /\ resp = NoResp
    /\ front = NoFront(1)

no_request == req.pc \in {"idle", "served", "done"}

\* GET /notes (list_notes)
ListNotes(u, topic_filter) ==
    /\ no_request
    /\ LET hits == {i \in owned(notes, u) :
                      Truthy(topic_filter) => ilike_contains(notes[i].topic, topic_filter.v)}
           rows == ascending(hits)
       IN resp' = [status |-> 200,
                   body   |-> [notes |-> [n \in 1..Len(rows) |->
                                            serialize_note_indexed(notes, rows[n], n)]]]
    /\ req' = Served(u, "list_notes") @@ [topic |-> topic_filter]
    /\ UNCHANGED <<notes, last_update, session>>
    /\ UNCHANGED agent_vars
    /\ UNCHANGED conc_vars
    /\ UNCHANGED front_vars

\* create_note counting the rows of the whole table, without the condition
\* Note.user_id == user_id of routes.py:121
CreateNote_counting_all_users(u, topic, message) ==
    /\ no_request
    /\ \E i \in new_ids(notes) :
        LET table == notes @@ (i :> Row(u, topic, message))
        IN /\ notes' = table
           /\ last_update' = stamped(last_update, notes, table)
           /\ resp' = [status |-> 201,
                       body   |-> serialize_note_indexed(table, i,
                                        Cardinality(DOMAIN table))]
    /\ req' = Served(u, "create_note")
    /\ UNCHANGED session
    /\ UNCHANGED agent_vars
    /\ UNCHANGED conc_vars
    /\ UNCHANGED front_vars

\* POST /notes (create_note)
CreateNote(u, topic, message) ==
    /\ no_request
    /\ \E i \in new_ids(notes) :
        LET table == notes @@ (i :> Row(u, topic, message))
        IN /\ notes' = table
           /\ last_update' = stamped(last_update, notes, table)
           /\ resp' = [status |-> 201,
                       body   |-> serialize_note_indexed(table, i,
                                        Cardinality(owned(table, u)))]
    /\ req' = Served(u, "create_note")
    /\ UNCHANGED session
    /\ UNCHANGED agent_vars
    /\ UNCHANGED conc_vars
    /\ UNCHANGED front_vars

\* PUT /notes/<note_id> (update_note); topic and message are None or a string
UpdateNote(u, i, topic, message) ==
    /\ no_request
    /\ IF i \in owned(notes, u)
       THEN LET table == [notes EXCEPT
                            ![i].topic   = IF topic.k # "none" THEN topic.v ELSE @,
                            ![i].message = IF message.k # "none" THEN message.v ELSE @]
            IN /\ notes' = table
               /\ last_update' = stamped(last_update, notes, table)
               /\ resp' = [status |-> 200, body |-> serialize_note(table, i)]
       ELSE /\ notes' = notes
            /\ last_update' = last_update
            /\ resp' = not_found
    /\ req' = ServedNote(u, "update_note", i, [topic |-> topic, message |-> message])
    /\ UNCHANGED session
    /\ UNCHANGED agent_vars
    /\ UNCHANGED conc_vars
    /\ UNCHANGED front_vars

\* delete_note selecting the note by its id alone, without the condition
\* Note.user_id == user_id of routes.py:151
DeleteNote_of_any_owner(u, i) ==
    /\ no_request
    /\ IF i \in DOMAIN notes
       THEN /\ notes' = without(notes, i)
            /\ last_update' = stamped(last_update, notes, without(notes, i))
            /\ resp' = [status |-> 200, body |-> [status |-> "deleted"]]
       ELSE /\ notes' = notes
            /\ last_update' = last_update
            /\ resp' = not_found
    /\ req' = ServedNote(u, "delete_note", i, <<>>)
    /\ UNCHANGED session
    /\ UNCHANGED agent_vars
    /\ UNCHANGED conc_vars
    /\ UNCHANGED front_vars

\* DELETE /notes/<note_id> (delete_note)
DeleteNote(u, i) ==
    /\ no_request
    /\ IF i \in owned(notes, u)
       THEN /\ notes' = without(notes, i)
            /\ last_update' = stamped(last_update, notes, without(notes, i))
            /\ resp' = [status |-> 200, body |-> [status |-> "deleted"]]
       ELSE /\ notes' = notes
            /\ last_update' = last_update
            /\ resp' = not_found
    /\ req' = ServedNote(u, "delete_note", i, <<>>)
    /\ UNCHANGED session
    /\ UNCHANGED agent_vars
    /\ UNCHANGED conc_vars
    /\ UNCHANGED front_vars

\* POST /nl-query, routes.py:163-164 and 169: the caller, the validated
\* body (an empty query fails NLQueryRequest and is answered 400) and the
\* dry_run flag
NlQueryStart(u, q, d) ==
    /\ no_request
    /\ IF q = <<>>
       THEN /\ req' = Served(u, "handle_nl_query")
            /\ resp' = invalid_request
       ELSE /\ req' = [pc |-> "interpret", user_id |-> u, query |-> q, dry_run |-> d,
                      interp |-> <<>>, target |-> <<>>, result |-> <<>>]
            /\ resp' = NoResp
    /\ UNCHANGED <<notes, last_update, session>>
    /\ UNCHANGED agent_vars
    /\ UNCHANGED conc_vars
    /\ UNCHANGED front_vars

\* routes.py:165-168, agent.interpret; an exception leaving interpret ends
\* the request with a 500.  A create is not started on a full table.
NlInterpret(reply) ==
    /\ req.pc = "interpret"
    /\ <<req.query, reply>> \in NlInputs
    /\ LET r == interpret(req.query, reply)
       IN IF r.raised
          THEN /\ req' = [req EXCEPT !.pc = "done"]
               /\ resp' = server_error
          ELSE /\ is_action(r.v.action, kw_create) => new_ids(notes) # {}
               /\ req' = [req EXCEPT !.pc = "session", !.interp = <<r.v>>]
               /\ resp' = resp
    /\ UNCHANGED <<notes, last_update, session>>
    /\ UNCHANGED agent_vars
    /\ UNCHANGED conc_vars
    /\ UNCHANGED front_vars

\* the create branch skipping session.add when dry_run is set, as the
\* update and delete branches skip their change
NlCreate_honouring_dry_run ==
    /\ req.pc = "session"
    /\ is_action(req.interp[1].action, kw_create)
    /\ LET payload == req.interp[1].payload
           topic   == Or(Get(payload, "topic", PyNone), PyStr(str_General))
           message == Or(Get(payload, "message", PyNone), PyStr(req.query))
       IN \E i \in new_ids(notes) :
            LET view == notes @@ (i :> Row(req.user_id, topic.v, message.v))
            IN /\ session' = [open |-> TRUE, view |-> IF req.dry_run THEN notes ELSE view]
               /\ req' = [req EXCEPT !.pc = "commit",
                            !.result = <<[early |-> FALSE, out |-> serialize_note(view, i)]>>]
    /\ UNCHANGED <<notes, last_update, resp>>
    /\ UNCHANGED agent_vars
    /\ UNCHANGED conc_vars
    /\ UNCHANGED front_vars

\* routes.py:171-178, the create branch: the INSERT is flushed inside the
\* transaction
NlCreate ==
    /\ req.pc = "session"
    /\ is_action(req.interp[1].action, kw_create)
    /\ LET payload == req.interp[1].payload
           topic   == Or(Get(payload, "topic", PyNone), PyStr(str_General))
           message == Or(Get(payload, "message", PyNone), PyStr(req.query))
       IN \E i \in new_ids(notes) :
            LET view == notes @@ (i :> Row(req.user_id, topic.v, message.v))
            IN /\ session' = [open |-> TRUE, view |-> view]
               /\ req' = [req EXCEPT !.pc = "commit",
                            !.result = <<[early |-> FALSE, out |-> serialize_note(view, i)]>>]
    /\ UNCHANGED <<notes, last_update, resp>>
    /\ UNCHANGED agent_vars
    /\ UNCHANGED conc_vars
    /\ UNCHANGED front_vars

\* routes.py:180, 185, 204: the call of _resolve_note in the read, update
\* and delete branches
NlResolve ==
    /\ req.pc = "session"
    /\ \E word \in {kw_read, kw_update, kw_delete} : is_action(req.interp[1].action, word)
    /\ session' = [open |-> TRUE, view |-> notes]
    /\ req' = [req EXCEPT !.pc = "resolved",
                 !.target = <<resolve_note(notes, req.user_id, req.interp[1].payload)>>]
    /\ UNCHANGED <<notes, last_update, resp>>
    /\ UNCHANGED agent_vars
    /\ UNCHANGED conc_vars
    /\ UNCHANGED front_vars

\* database.py:30-34, session_scope on an exception: rollback, close, and
\* the exception becomes a 500
NlRollback ==
    /\ req.pc = "resolved"
    /\ req.target[1].raised
    /\ session' = NoSession
    /\ req' = [req EXCEPT !.pc = "done"]
    /\ resp' = server_error
    /\ UNCHANGED <<notes, last_update>>
    /\ UNCHANGED agent_vars
    /\ UNCHANGED conc_vars
    /\ UNCHANGED front_vars

\* routes.py:181-183, 186-202, 205-217: the rest of the read, update and
\* delete branches
NlApply ==
    /\ req.pc = "resolved"
    /\ ~req.target[1].raised
    /\ LET a == nl_apply(req.interp[1].action, req.interp[1].payload,
                         req.dry_run, req.target[1].v, session.view)
       IN /\ session' = [session EXCEPT !.view = a.view]
          /\ req' = [req EXCEPT !.pc = "commit",
                       !.result = <<[early |-> a.early, out |-> a.out]>>]
    /\ UNCHANGED <<notes, last_update, resp>>
    /\ UNCHANGED agent_vars
    /\ UNCHANGED conc_vars
    /\ UNCHANGED front_vars

\* routes.py:218-224, the list branch, taken for every other action
NlList ==
    /\ req.pc = "session"
    /\ \A word \in {kw_create, kw_read, kw_update, kw_delete} :
            ~is_action(req.interp[1].action, word)
    /\ session' = [open |-> TRUE, view |-> notes]
    /\ req' = [req EXCEPT !.pc = "commit",
                 !.result = <<[early |-> FALSE,
                               out |-> LET rows == order_by_last_update_desc(
                                                        notes, last_update, req.user_id)
                                       IN [n \in 1..Len(rows) |->
                                              serialize_note(notes, rows[n])]]>>]
    /\ UNCHANGED <<notes, last_update, resp>>
    /\ UNCHANGED agent_vars
    /\ UNCHANGED conc_vars
    /\ UNCHANGED front_vars

\* database.py:28-29 and 34, session_scope on a normal exit: commit and
\* close; then the response (routes.py:226-233, or the one returned early)
NlCommit ==
    /\ req.pc = "commit"
    /\ notes' = session.view
    /\ last_update' = stamped(last_update, notes, session.view)
    /\ session' = NoSession
    /\ resp' = IF req.result[1].early THEN req.result[1].out
               ELSE nl_response(req.interp[1].action, req.interp[1].payload,
                                req.result[1].out, req.dry_run)
    /\ req' = [req EXCEPT !.pc = "done"]
    /\ UNCHANGED agent_vars
    /\ UNCHANGED conc_vars
    /\ UNCHANGED front_vars

Next ==
    \/ \E u \in Users, f \in ListFilters : ListNotes(u, f)
    \/ \E u \in Users, t \in DirectTopics, m \in DirectMessages : CreateNote(u, t, m)
    \/ \E u \in Users, i \in 1..MaxNoteId, f \in DirectUpdates : UpdateNote(u, i, f[1], f[2])
    \/ \E u \in Users, i \in 1..MaxNoteId : DeleteNote(u, i)
    \/ \E u \in Users, q \in NlQueries, d \in BOOLEAN : NlQueryStart(u, q, d)
    \/ \E reply \in {i[2] : i \in NlInputs} : NlInterpret(reply)
    \/ NlCreate
    \/ NlResolve
    \/ NlRollback
    \/ NlApply
    \/ NlList
    \/ NlCommit

Spec == Init /\ [][Next]_vars

(***************************************************************************)
(* The frontend: the assistant flow of render_notes_dashboard              *)
(*                                                                         *)
(* One user is logged in.  Every script run starts with GET /notes and     *)
(* then handles the one widget that triggered it; a request the run sends  *)
(* is served by the routes above, and the run goes on with the response.   *)
(* Manual mode is off, as it is by default.                                *)
(***************************************************************************)
kw_content == <<"c", "o", "n", "t", "e", "n", "t">>
q_trash_general == <<"t", "r", "a", "s", "h", " ", "g", "e", "n", "e", "r", "a", "l">>

\* the keyword lists of streamlit_app.py:671, 684 and 697
FrontDeleteWords == {kw_delete, kw_remove, kw_trash, kw_clear}
FrontEditWords == {kw_edit, kw_update, kw_change}
FrontViewWords == {kw_view, kw_show, kw_content, kw_read}

\* the texts typed into the assistant form
FrontQueries == {q_add, q_hi, q_show, q_delete, q_edit, q_trash_general}
\* title and description typed into the edit and details forms
FrontFormInputs == {<<str_General, q_add>>, <<str_Work, q_add>>, <<str_General, str_m>>}
\* what the LLM does for a forwarded query: it is down, or answers "add"
\* with a read intent without filters
FrontReplies ==
    {[k |-> "Timeout"],
     GenerateReply(JsonText(PyDict(Intent(kw_read, PyInt(1), PyNone, PyNone, PyNone))))}
EditForms == {"llm_edit_note_form", "pending_edit_form"}

\* extract_note_id_from_text: the same pattern as the agent's
extract_note_id_from_text(text) == extract_note_id(text)

\* find_note_by_title over the notes GET /notes returned
find_note_by_title(text, listed) ==
    LET exact  == {n \in 1..Len(listed) : lower(listed[n].topic) = strip(lower(text))}
        inside == {n \in 1..Len(listed) :
                     /\ listed[n].topic # <<>>
                     /\ contains(lower(text), lower(listed[n].topic))}
        hit    == IF exact # {} THEN first(exact) ELSE first(inside)
    IN IF hit = <<>> THEN <<>> ELSE <<listed[hit[1]]>>

\* streamlit_app.py:658-668: the note the query names by display number,
\* or else by title
matched_note(query_lower, listed) ==
    LET requested == extract_note_id_from_text(query_lower)
        numbered  == IF Truthy(requested)
                     THEN {n \in 1..Len(listed) : listed[n].display_number = requested.v}
                     ELSE {}
    IN IF numbered # {} THEN <<listed[first(numbered)[1]]>>
       ELSE find_note_by_title(query_lower, listed)

\* mark_note_pending_details; display_number only feeds the text shown
mark_note_pending_details(note) ==
    [note_id |-> note.note_id, topic |-> note.topic, message |-> note.message]

\* the request a script run sends
HttpCall(method, path, note_id, data) ==
    [method |-> method, path |-> path, note_id |-> note_id, data |-> data]

\* the script run has fetched the notes of the user and sends nothing
fetched ==
    /\ front.out = <<>>
    /\ req.pc = "served"
    /\ req.endpoint = "list_notes"
    /\ req.user_id = front.user
    /\ resp.status = 200

\* a script run from its GET /notes to its end, triggered by widget event:
\* the session state it leaves and the request it sends, if any
run(event, query, pending_delete, pending_edit, details, out, rerun) ==
    /\ fetched
    /\ front' = [front EXCEPT
                   !.event = event, !.query = query,
                   !.pending_delete_note = pending_delete,
                   !.pending_edit_note = pending_edit,
                   !.pending_note_details = details,
                   !.out = out,
                   !.undo_shown = IF rerun THEN pending_delete # <<>>
                                  ELSE front.pending_delete_note # <<>>,
                   !.edit_shown = IF rerun THEN pending_edit # <<>>
                                  ELSE front.pending_edit_note # <<>>]
    /\ req' = IdleReq
    /\ UNCHANGED <<notes, last_update, session, resp>>
    /\ UNCHANGED agent_vars
    /\ UNCHANGED conc_vars

\* streamlit_app.py:403, get_json("/notes") at the start of a script run
FrontGet ==
    /\ front.out = <<>>
    /\ req.pc = "idle"
    /\ ListNotes(front.user, PyNone)

\* streamlit_app.py:653-725, the assistant form submitted with query
FrontSend(query) ==
    /\ strip(query) # <<>>
    /\ LET query_lower == lower(query)
           matched == matched_note(query_lower, resp.body.notes)
           delete  == any_in(query_lower, FrontDeleteWords)
           edit    == any_in(query_lower, FrontEditWords)
           view    == any_in(query_lower, FrontViewWords) /\ matched # <<>>
       IN run("nl_query_form", query,
              IF delete /\ matched # <<>> THEN matched ELSE front.pending_delete_note,
              IF edit /\ matched # <<>> THEN matched ELSE front.pending_edit_note,
              front.pending_note_details,
              IF delete \/ edit \/ view THEN <<>>
              ELSE <<HttpCall("POST", "/nl-query", 0, query)>>,
              FALSE)

\* streamlit_app.py:816-827, "Yes, delete it"
FrontDeleteYes ==
    /\ front.pending_delete_note # <<>>
    /\ run("pending_delete_yes", <<>>, front.pending_delete_note, front.pending_edit_note,
           front.pending_note_details,
           <<HttpCall("DELETE", "/notes/<id>", front.pending_delete_note[1].note_id, <<>>)>>,
           FALSE)

\* streamlit_app.py:817 and 830-835, "No, keep it"
FrontDeleteNo ==
    /\ front.pending_delete_note # <<>>
    /\ run("pending_delete_no", <<>>, <<>>, front.pending_edit_note,
           front.pending_note_details, <<>>, TRUE)

\* streamlit_app.py:616-633, "Restore note" of the block "Undo delete"
FrontRestore ==
    /\ front.pending_delete_note # <<>>
    /\ front.undo_shown
    /\ run("pending_delete_restore", <<>>, front.pending_delete_note,
           front.pending_edit_note, front.pending_note_details,
           <<HttpCall("POST", "/notes", 0,
                      [topic   |-> front.pending_delete_note[1].topic,
                       message |-> front.pending_delete_note[1].message])>>,
           FALSE)

\* streamlit_app.py:617 and 634-637, "Keep deleted" of the same block
FrontKeepDeleted ==
    /\ front.pending_delete_note # <<>>
    /\ front.undo_shown
    /\ run("pending_delete_keep", <<>>, <<>>, front.pending_edit_note,
           front.pending_note_details, <<>>, TRUE)

\* streamlit_app.py:585-606 and 775-803: an edit form submitted with the
\* title and description typed; only changed fields are sent, and form
\* "pending_edit_form" reruns the script when there are none
FrontEditSubmit(form, topic, message) ==
    /\ front.pending_edit_note # <<>>
    /\ form = "llm_edit_note_form" => front.edit_shown
    /\ LET pending == front.pending_edit_note[1]
           payload == [topic   |-> IF topic # pending.topic THEN PyStr(topic) ELSE PyNone,
                       message |-> IF message # pending.message THEN PyStr(message)
                                   ELSE PyNone]
           changed == topic # pending.topic \/ message # pending.message
       IN run(form, <<>>, front.pending_delete_note, front.pending_edit_note,
              front.pending_note_details,
              IF changed THEN <<HttpCall("PUT", "/notes/<id>", pending.note_id, payload)>>
              ELSE <<>>,
              ~changed /\ form = "pending_edit_form")

\* streamlit_app.py:607-609 and 804-807, "Skip" and "Cancel" of the edit forms
FrontEditSkip(form) ==
    /\ front.pending_edit_note # <<>>
    /\ form = "llm_edit_note_form" => front.edit_shown
    /\ run("edit_skip", <<>>, front.pending_delete_note, <<>>,
           front.pending_note_details, <<>>, TRUE)

\* streamlit_app.py:746-766, "Save details" for a note the assistant created
FrontSaveDetails(topic, message) ==
    /\ front.pending_note_details # <<>>
    /\ run("pending_details_form", <<>>, front.pending_delete_note, front.pending_edit_note,
           front.pending_note_details,
           <<HttpCall("PUT", "/notes/<id>", front.pending_note_details[1].note_id,
                      [topic |-> PyStr(topic), message |-> PyStr(message)])>>,
           FALSE)

\* streamlit_app.py:767-769, "Skip" of the details form
FrontSkipDetails ==
    /\ front.pending_note_details # <<>>
    /\ run("pending_details_form_skip", <<>>, front.pending_delete_note,
           front.pending_edit_note, <<>>, <<>>, TRUE)

\* the request of the run is on its way and no route has taken it yet
sending(method, path) ==
    /\ front.out # <<>>
    /\ front.out[1].method = method
    /\ front.out[1].path = path
    /\ req.pc = "idle"

\* post_json("/nl-query") reaches handle_nl_query; the frontend never sets
\* dry_run
FrontPostNlQuery ==
    /\ sending("POST", "/nl-query")
    /\ NlQueryStart(front.user, front.out[1].data, FALSE)

\* post_json("/notes") reaches create_note
FrontPostNotes ==
    /\ sending("POST", "/notes")
    /\ CreateNote(front.user, front.out[1].data.topic, front.out[1].data.message)

\* put_json reaches update_note
FrontPut ==
    /\ sending("PUT", "/notes/<id>")
    /\ UpdateNote(front.user, front.out[1].note_id, front.out[1].data.topic,
                  front.out[1].data.message)

\* delete_json reaches delete_note
FrontDelete ==
    /\ sending("DELETE", "/notes/<id>")
    /\ DeleteNote(front.user, front.out[1].note_id)

\* _ensure_json_response raises for a status of 400 and above
ok_response == resp.status < 400

\* the rest of the script run once the response is there: the try blocks
\* of streamlit_app.py:598-604, 619-633, 708-725, 755-766, 790-800, 819-829
FrontReceive ==
    /\ front.out # <<>>
    /\ req.pc \in {"served", "done"}
    /\ LET event == front.event
           created == /\ event = "nl_query_form"
                      /\ ok_response
                      /\ resp.body.action = PyStr(kw_create)
           pending_delete ==
               IF event = "pending_delete_restore" \/ (event = "pending_delete_yes" /\ ok_response)
               THEN <<>> ELSE front.pending_delete_note
           pending_edit ==
               IF event \in EditForms /\ ok_response THEN <<>> ELSE front.pending_edit_note
           details ==
               IF created THEN <<mark_note_pending_details(resp.body.result)>>
               ELSE IF event = "pending_details_form" /\ ok_response THEN <<>>
               ELSE front.pending_note_details
           rerun == event = "pending_delete_restore"
                      \/ (event # "nl_query_form" /\ ok_response)
       IN front' = [front EXCEPT
                      !.pending_delete_note = pending_delete,
                      !.pending_edit_note = pending_edit,
                      !.pending_note_details = details,
                      !.out = <<>>,
                      !.undo_shown = IF rerun THEN pending_delete # <<>> ELSE @,
                      !.edit_shown = IF rerun THEN pending_edit # <<>> ELSE @]
    /\ req' = IdleReq
    /\ UNCHANGED <<notes, last_update, session, resp>>
    /\ UNCHANGED agent_vars
    /\ UNCHANGED conc_vars

FrontendNext ==
    \/ FrontGet
    \/ \E q \in FrontQueries : FrontSend(q)
    \/ FrontDeleteYes
    \/ FrontDeleteNo
    \/ FrontRestore
    \/ FrontKeepDeleted
    \/ \E form \in EditForms, i \in FrontFormInputs : FrontEditSubmit(form, i[1], i[2])
    \/ \E form \in EditForms : FrontEditSkip(form)
    \/ \E i \in FrontFormInputs : FrontSaveDetails(i[1], i[2])
    \/ FrontSkipDetails
    \/ FrontPostNlQuery
    \/ FrontPostNotes
    \/ FrontPut
    \/ FrontDelete
    \/ \E reply \in FrontReplies : NlInterpret(reply)
    \/ NlCreate
    \/ NlResolve
    \/ NlRollback
    \/ NlApply
    \/ NlList
    \/ NlCommit
    \/ FrontReceive

FrontendSpec == Init /\ [][FrontendNext]_vars

(***************************************************************************)
(* Properties of the routes run                                            *)
(***************************************************************************)
\* r is an nl-query with dry_run set, an action among words, and a target
\* that _resolve_note found
DryRunTargetResolved(r, words) ==
    /\ r.pc \in {"resolved", "commit", "done"}
    /\ r.target # <<>>
    /\ ~r.target[1].raised
    /\ r.target[1].v # <<>>
    /\ r.dry_run
    /\ \E w \in words : is_action(r.interp[1].action, w)

\* C6: with dry_run set, an nl-query whose action is update or delete and
\* whose target resolves takes no store-mutating step: from the start of the
\* request to its response no step changes the table, and the transaction's
\* working copy never differs from the table (nothing is applied and undone).
C6_DryRunNeverMutates ==
    [][ /\ (req'.pc \in {"interpret", "session"} /\ req'.dry_run)
            => (notes' = notes /\ last_update' = last_update /\ ~session'.open)
        /\ (DryRunTargetResolved(req', {kw_update, kw_delete})
                /\ req.pc \in {"session", "resolved", "commit"})
            => (notes' = notes /\ last_update' = last_update
                /\ (session'.open => session'.view = notes))
      ]_vars

\* a dry-run delete of a resolved note has been answered and the table
\* still holds that note and another one
C6_Witness ==
    /\ req.pc = "done"
    /\ DryRunTargetResolved(req, {kw_delete})
    /\ resp.status = 200
    /\ req.target[1].v[1] \in DOMAIN notes
    /\ Cardinality(DOMAIN notes) >= 2

\* C7: a dry-run update through nl-query with a resolvable target returns
\* the resolved note with the topic and message it has in the table, not
\* the values of the intent, and reports dry_run true.
C7_DryRunUpdateReturnsStoredNote ==
    DryRunTargetResolved(req, {kw_update})
        => LET expected == nl_response(req.interp[1].action, req.interp[1].payload,
                                       serialize_note(notes, req.target[1].v[1]), TRUE)
           IN /\ req.pc = "commit"
                    => (req.result[1].early /\ req.result[1].out = expected)
              /\ req.pc = "done" => resp = expected

\* a dry-run update that asked for another topic and another message than
\* the stored ones has been answered
C7_Witness ==
    /\ req.pc = "done"
    /\ DryRunTargetResolved(req, {kw_update})
    /\ resp.status = 200
    /\ resp.body.dry_run
    /\ Truthy(req.interp[1].payload.topic)
    /\ Truthy(req.interp[1].payload.message)
    /\ req.interp[1].payload.topic.v # notes[req.target[1].v[1]].topic
    /\ req.interp[1].payload.message.v # notes[req.target[1].v[1]].message

\* the intent names a note id: present, an integer, not zero
IdPresent(payload) ==
    /\ "note_id" \in DOMAIN payload
    /\ payload.note_id.k = "int"
    /\ payload.note_id.v # 0

\* the intent names no note id
IdAbsent(payload) ==
    "note_id" \in DOMAIN payload => payload.note_id.k = "none"

\* the intent carries a non-empty topic filter
TopicFilterPresent(payload) ==
    /\ "filters" \in DOMAIN payload
    /\ payload.filters.k = "dict"
    /\ "topic" \in DOMAIN payload.filters.v
    /\ payload.filters.v.topic.k = "str"
    /\ payload.filters.v.topic.v # <<>>

\* the intent carries no topic filter at all
TopicFilterAbsent(payload) ==
    "filters" \in DOMAIN payload
        => \/ payload.filters.k = "none"
           \/ /\ payload.filters.k = "dict"
              /\ "topic" \in DOMAIN payload.filters.v
                    => \/ payload.filters.v.topic.k = "none"
                       \/ /\ payload.filters.v.topic.k = "str"
                          /\ payload.filters.v.topic.v = <<>>

\* topic contains f as a substring, letter case ignored
ci_substring(topic, f) == contains(lower(topic), lower(f))

lowest(ids) == IF ids = {} THEN <<>> ELSE <<CHOOSE i \in ids : \A j \in ids : i <= j>>

\* C8: when the intent's note_id is present and non-zero, the resolver
\* returns the caller's note with exactly that id if there is one and
\* NotFound otherwise, whatever the filters of the intent are.
C8_IdTakesPrecedence ==
    (req.pc = "resolved" /\ IdPresent(req.interp[1].payload))
        => /\ ~req.target[1].raised
           /\ req.target[1].v =
                lowest({i \in owned(notes, req.user_id) :
                            i = req.interp[1].payload.note_id.v})

\* C9: when note_id is absent and filters.topic is non-empty, the resolver
\* returns the caller's lowest-id note whose topic contains the filter as a
\* case-insensitive substring, and NotFound when no owned note does.
C9_TopicFilterFirstSubstringMatch ==
    (req.pc = "resolved" /\ IdAbsent(req.interp[1].payload)
        /\ TopicFilterPresent(req.interp[1].payload))
        => /\ ~req.target[1].raised
           /\ req.target[1].v =
                lowest({i \in owned(notes, req.user_id) :
                            ci_substring(notes[i].topic,
                                         req.interp[1].payload.filters.v.topic.v)})

\* C10: when the intent has no usable signal (note_id absent, null or zero
\* and no topic filter, or a null or empty one) the resolver returns
\* NotFound whatever the table holds.
C10_NoSignalNotFound ==
    (req.pc = "resolved"
        /\ ~IdPresent(req.interp[1].payload)
        /\ ("note_id" \in DOMAIN req.interp[1].payload
                => req.interp[1].payload.note_id.k \in {"none", "int"})
        /\ TopicFilterAbsent(req.interp[1].payload))
        => /\ ~req.target[1].raised
           /\ req.target[1].v = <<>>

\* C11: the resolver is read-only and selects among existing notes: the
\* step that calls it leaves the table and the transaction's working copy
\* as they were, and a note it returns is a row of the table owned by the
\* caller.
C11_ResolverReadOnly ==
    [][ (req.pc = "session" /\ req'.pc = "resolved")
            => /\ notes' = notes
               /\ last_update' = last_update
               /\ session'.view = notes
               /\ (~req'.target[1].raised /\ req'.target[1].v # <<>>)
                    => /\ req'.target[1].v[1] \in DOMAIN notes'
                       /\ notes'[req'.target[1].v[1]].user_id = req'.user_id
      ]_vars

\* the resolver returned the caller's note for a topic filter that also
\* matches a note of another user with a lower id
C11_Witness ==
    /\ req.pc = "resolved"
    /\ ~req.target[1].raised
    /\ req.target[1].v # <<>>
    /\ TopicFilterPresent(req.interp[1].payload)
    /\ \E j \in DOMAIN notes :
            /\ j < req.target[1].v[1]
            /\ notes[j].user_id # req.user_id
            /\ ci_substring(notes[j].topic, req.interp[1].payload.filters.v.topic.v)

\* the notes in the body of response out to request r
returned_notes(r, out) ==
    IF out.status \notin {200, 201} THEN {}
    ELSE IF r.pc = "served" THEN
        CASE r.endpoint = "list_notes" ->
                {out.body.notes[n] : n \in 1..Len(out.body.notes)}
          [] r.endpoint \in {"create_note", "update_note"} -> {out.body}
          [] OTHER -> {}
    ELSE IF r.pc = "done" THEN
        IF \E w \in {kw_create, kw_read, kw_update, kw_delete} :
                is_action(r.interp[1].action, w)
        THEN {out.body.result}
        ELSE {out.body.result[n] : n \in 1..Len(out.body.result)}
    ELSE {}

\* n shows a row of user u of the table, with that row's topic and message
shows_row_of(table, u, n) ==
    /\ n.note_id \in DOMAIN table
    /\ table[n.note_id].user_id = u
    /\ "topic" \in DOMAIN n
            => (n.topic = table[n.note_id].topic /\ n.message = table[n.note_id].message)

\* C12: in every step taken for a request authenticated as user A, the rows
\* of every other user stay in the table as they were, every new row is
\* owned by A, and every note in the response is a row of A (for a
\* deletion: the row of A that was deleted).
C12_UserIsolation ==
    [][ req'.pc # "idle"
            => /\ \A i \in DOMAIN notes :
                    notes[i].user_id # req'.user_id
                        => (i \in DOMAIN notes' /\ notes'[i] = notes[i])
               /\ \A i \in DOMAIN notes' \ DOMAIN notes :
                    notes'[i].user_id = req'.user_id
               /\ \A n \in returned_notes(req', resp') :
                    IF "status" \in DOMAIN n
                    THEN shows_row_of(notes, req'.user_id, n)
                    ELSE shows_row_of(notes', req'.user_id, n)
      ]_vars

\* an nl-query naming by id a note of another user has been answered
\* not-found while that note is in the table
C12_Witness ==
    /\ req.pc = "done"
    /\ resp = not_found
    /\ IdPresent(req.interp[1].payload)
    /\ req.interp[1].payload.note_id.v \in DOMAIN notes
    /\ notes[req.interp[1].payload.note_id.v].user_id # req.user_id

\* C13: every response that handle_nl_query returns for a valid body
\* contains action, agent_summary and result, whatever the LLM did and
\* whatever the action is, also when a read, update or delete found no
\* target.  (A request that ends in an exception, answered 500, has no
\* such response either; the formula is about the responses the handler
\* itself builds.)
C13_ResponseHasActionSummaryResult ==
    (req.pc = "done" /\ resp # server_error)
        => {"action", "agent_summary", "result"} \subseteq DOMAIN resp.body

\* _resolve_note returned None in request r
TargetNotFound(r) ==
    /\ r.pc \in {"resolved", "commit", "done"}
    /\ r.target # <<>>
    /\ ~r.target[1].raised
    /\ r.target[1].v = <<>>

\* C14: when the resolver returns NotFound for a read, update or delete
\* intent, the request runs to a response without an exception, the
\* response is the not-found outcome, and no step of it changes the table
\* or the transaction's working copy.
C14_NotFoundIsNormalResponse ==
    [][ (TargetNotFound(req) /\ req.pc # "done")
            => /\ req'.pc \in {"commit", "done"}
               /\ req'.pc = "commit"
                    => (req'.result[1].early /\ req'.result[1].out = not_found)
               /\ req'.pc = "done" => resp' = not_found
               /\ notes' = notes
               /\ last_update' = last_update
               /\ session'.open => session'.view = notes
      ]_vars

\* a delete whose target was not found has been answered while the caller
\* has notes of their own in the table
C14_Witness ==
    /\ TargetNotFound(req)
    /\ req.pc = "done"
    /\ is_action(req.interp[1].action, kw_delete)
    /\ ~req.dry_run
    /\ resp.status = 404
    /\ \E i \in DOMAIN notes : notes[i].user_id = req.user_id

\* the intent carries a note_id that is neither an integer nor null
MalformedId(payload) ==
    /\ "note_id" \in DOMAIN payload
    /\ payload.note_id.k \notin {"int", "none"}

\* the intent without its note_id
without_note_id(payload) == [key \in DOMAIN payload \ {"note_id"} |-> payload[key]]

\* C23: a malformed note id in the intent (a value that is not an integer)
\* is treated as absent: the resolver gives what it gives for the same
\* intent without note_id, so the topic filter decides when there is one,
\* and the request does not fail.
C23_MalformedIdIsAbsent ==
    (req.pc = "resolved" /\ MalformedId(req.interp[1].payload)
        /\ TopicFilterPresent(req.interp[1].payload))
        => /\ ~req.target[1].raised
           /\ req.target[1] =
                resolve_note(notes, req.user_id, without_note_id(req.interp[1].payload))

\* the step is the commit of an nl-query whose action is word
commits(word) ==
    /\ req.pc = "commit"
    /\ req'.pc = "done"
    /\ is_action(req.interp[1].action, word)

\* table after is table before plus one row i, a row of user u
one_row_added(before, after, u) ==
    \E i \in DOMAIN after \ DOMAIN before :
        /\ DOMAIN after = DOMAIN before \cup {i}
        /\ after[i].user_id = u
        /\ \A j \in DOMAIN before : after[j] = before[j]

\* C24: a non-dry-run nl-query delete whose target resolves removes that
\* note and nothing else, every other note of every user staying as it
\* was; a non-dry-run nl-query create adds exactly one note, owned by the
\* caller, with non-empty topic and message: those of the intent, or
\* "General" and the query text where the intent has none.
C24_DeleteAndCreateFrame ==
    [][ /\ (commits(kw_delete) /\ ~req.dry_run /\ req.target[1].v # <<>>)
            => /\ req.target[1].v[1] \in DOMAIN notes
               /\ DOMAIN notes' = DOMAIN notes \ {req.target[1].v[1]}
               /\ \A j \in DOMAIN notes' : notes'[j] = notes[j]
        /\ (commits(kw_create) /\ ~req.dry_run)
            => /\ one_row_added(notes, notes', req.user_id)
               /\ \A i \in DOMAIN notes' \ DOMAIN notes :
                    LET payload == req.interp[1].payload
                        given(key) == key \in DOMAIN payload /\ payload[key].k = "str"
                                        /\ payload[key].v # <<>>
                    IN /\ notes'[i].topic # <<>>
                       /\ notes'[i].message # <<>>
                       /\ notes'[i].topic =
                            IF given("topic") THEN payload.topic.v ELSE str_General
                       /\ notes'[i].message =
                            IF given("message") THEN payload.message.v ELSE req.query
      ]_vars

\* an nl-query delete has removed the note with the lowest id while a
\* note with a higher id stays in the table
C24_Witness ==
    /\ req.pc = "done"
    /\ resp.status = 200
    /\ is_action(req.interp[1].action, kw_delete)
    /\ ~req.dry_run
    /\ req.target[1].v[1] \notin DOMAIN notes
    /\ \E j \in DOMAIN notes : j > req.target[1].v[1]

\* C25: dry_run does not suppress create: an nl-query with action create
\* and dry_run set inserts one new note of the caller, and its response
\* reports dry_run true.
C25_DryRunCreateInserts ==
    [][ (commits(kw_create) /\ req.dry_run)
            => /\ one_row_added(notes, notes', req.user_id)
               /\ resp'.status = 200
               /\ resp'.body.dry_run = TRUE
               /\ resp'.body.result.note_id \in DOMAIN notes' \ DOMAIN notes
      ]_vars

\* a dry-run create has been answered and the note it reports is in the
\* table
C25_Witness ==
    /\ req.pc = "done"
    /\ resp.status = 200
    /\ is_action(req.interp[1].action, kw_create)
    /\ req.dry_run
    /\ resp.body.dry_run
    /\ resp.body.result.note_id \in DOMAIN notes

\* the intent of request r is the one the fallback classifier gives for its
\* query text
from_fallback(r) ==
    LET f == interpret_except(fallback_parse(r.query))
    IN ~f.raised /\ r.interp = <<f.v>>

\* payload carries a non-empty string under key
non_empty(payload, key) ==
    key \in DOMAIN payload /\ payload[key].k = "str" /\ payload[key].v # <<>>

\* C26: a non-dry-run nl-query update overwrites only the fields for which
\* the intent carries a non-empty value, leaving the other field, the owner
\* and all other notes unchanged; an update whose intent comes from the
\* fallback classifier changes neither topic nor message of any note.
C26_UpdateOnlyNonEmptyFields ==
    [][ (commits(kw_update) /\ ~req.dry_run /\ req.target[1].v # <<>>)
            => LET i == req.target[1].v[1]
                   payload == req.interp[1].payload
               IN /\ DOMAIN notes' = DOMAIN notes
                  /\ \A j \in DOMAIN notes \ {i} : notes'[j] = notes[j]
                  /\ notes'[i].user_id = notes[i].user_id
                  /\ notes'[i].topic =
                        IF non_empty(payload, "topic") THEN payload.topic.v
                        ELSE notes[i].topic
                  /\ notes'[i].message =
                        IF non_empty(payload, "message") THEN payload.message.v
                        ELSE notes[i].message
                  /\ from_fallback(req)
                        => \A j \in DOMAIN notes :
                              /\ notes'[j].topic = notes[j].topic
                              /\ notes'[j].message = notes[j].message
      ]_vars

\* an update with an empty topic and a non-empty message has been
\* committed: the note has the new message and a topic that is not empty
C26_Witness ==
    /\ req.pc = "done"
    /\ resp.status = 200
    /\ is_action(req.interp[1].action, kw_update)
    /\ ~req.dry_run
    /\ req.interp[1].payload.topic = PyStr(<<>>)
    /\ notes[req.target[1].v[1]].message = req.interp[1].payload.message.v
    /\ notes[req.target[1].v[1]].topic # <<>>

\* an update classified by the fallback has been committed for a note the
\* caller owns
C26_FallbackWitness ==
    /\ req.pc = "done"
    /\ resp.status = 200
    /\ is_action(req.interp[1].action, kw_update)
    /\ ~req.dry_run
    /\ from_fallback(req)
    /\ req.target[1].v[1] \in owned(notes, req.user_id)

\* the request being committed takes the list branch: its action is none
\* of create, read, update, delete
lists(r) ==
    /\ r.pc = "commit"
    /\ \A w \in {kw_create, kw_read, kw_update, kw_delete} :
            ~is_action(r.interp[1].action, w)

\* the place of note i among the notes of user u by last_update, 1 for the
\* oldest stamp, 0 for a note without one
stamp_rank(order, u, i) ==
    IF \E n \in 1..Len(order[u]) : order[u][n] = i
    THEN CHOOSE n \in 1..Len(order[u]) : order[u][n] = i
    ELSE 0

\* C27: every action value other than create, read, update and delete
\* (list, and any other value the LLM returns) is handled as a listing:
\* the store is unchanged, the result holds each note of the caller once
\* and no other note, ordered by last_update descending, and the response
\* carries the action as received.
C27_OtherActionsList ==
    [][ (lists(req) /\ req'.pc = "done")
            => LET result == resp'.body.result
                   u == req.user_id
               IN /\ notes' = notes
                  /\ last_update' = last_update
                  /\ resp'.status = 200
                  /\ resp'.body.action = req.interp[1].action
                  /\ "action" \in DOMAIN req.interp[1].payload
                        => resp'.body.action = req.interp[1].payload.action
                  /\ Len(result) = Cardinality(owned(notes, u))
                  /\ \A i \in owned(notes, u) :
                        \E n \in 1..Len(result) : result[n] = serialize_note(notes, i)
                  /\ \A n \in 1..Len(result) : result[n].note_id \in owned(notes, u)
                  /\ \A n, m \in 1..Len(result) :
                        n < m => stamp_rank(last_update, u, result[n].note_id)
                                    > stamp_rank(last_update, u, result[m].note_id)
      ]_vars

\* an action that is no known word has been answered with a listing of two
\* notes in which the note with the lower id, re-stamped by an update,
\* comes first
C27_Witness ==
    /\ req.pc = "done"
    /\ resp.status = 200
    /\ req.interp[1].action = PyStr(str_purge)
    /\ Len(resp.body.result) = 2
    /\ resp.body.result[1].note_id < resp.body.result[2].note_id

\* the step answers a PUT or DELETE on /notes/<note_id>
answers(r, endpoint) == r.pc = "served" /\ r.endpoint = endpoint

\* C28: on the direct endpoints a PUT or DELETE of a note id that does not
\* exist or belongs to another user is answered 404 not-found and leaves
\* the store as it was; a successful PUT overwrites the fields supplied as
\* non-null and nothing else, a successful DELETE removes that note and
\* nothing else.
C28_DirectPutDelete ==
    [][ /\ (\E e \in {"update_note", "delete_note"} : answers(req', e))
            /\ req'.note_id \notin owned(notes, req'.user_id)
            => /\ resp' = not_found
               /\ notes' = notes
               /\ last_update' = last_update
        /\ answers(req', "update_note") /\ req'.note_id \in owned(notes, req'.user_id)
            => LET i == req'.note_id
               IN /\ resp'.status = 200
                  /\ DOMAIN notes' = DOMAIN notes
                  /\ \A j \in DOMAIN notes \ {i} : notes'[j] = notes[j]
                  /\ notes'[i].user_id = notes[i].user_id
                  /\ notes'[i].topic =
                        IF req'.data.topic.k = "none" THEN notes[i].topic
                        ELSE req'.data.topic.v
                  /\ notes'[i].message =
                        IF req'.data.message.k = "none" THEN notes[i].message
                        ELSE req'.data.message.v
        /\ answers(req', "delete_note") /\ req'.note_id \in owned(notes, req'.user_id)
            => /\ resp'.status = 200
               /\ DOMAIN notes' = DOMAIN notes \ {req'.note_id}
               /\ \A j \in DOMAIN notes' : notes'[j] = notes[j]
      ]_vars

\* a DELETE of a note of another user has been answered 404 while that
\* note and a note of the caller are in the table
C28_Witness ==
    /\ answers(req, "delete_note")
    /\ resp = not_found
    /\ req.note_id \in DOMAIN notes
    /\ notes[req.note_id].user_id # req.user_id
    /\ owned(notes, req.user_id) # {}

\* C29: GET /notes without a topic filter numbers the caller's notes with
\* display_number 1..n in ascending note_id order, and the display_number
\* that POST /notes returned for a new note is the one that note has in a
\* GET /notes of the same user issued next, whatever was deleted before and
\* whatever other users own.
C29_DisplayNumbers ==
    [][ (answers(req', "list_notes") /\ req'.topic = PyNone)
            => LET listed == resp'.body.notes
                   u == req'.user_id
               IN /\ resp'.status = 200
                  /\ Len(listed) = Cardinality(owned(notes, u))
                  /\ {listed[n].note_id : n \in 1..Len(listed)} = owned(notes, u)
                  /\ \A n \in 1..Len(listed) : listed[n].display_number = n
                  /\ \A n, m \in 1..Len(listed) :
                        n < m => listed[n].note_id < listed[m].note_id
                  /\ (answers(req, "create_note") /\ req.user_id = u)
                        => \E n \in 1..Len(listed) :
                              /\ listed[n].note_id = resp.body.note_id
                              /\ listed[n].display_number = resp.body.display_number
      ]_vars

\* a GET /notes without filter has listed a note under a display_number
\* below its id, another user owning a note with a lower id
C29_Witness ==
    /\ answers(req, "list_notes")
    /\ req.topic = PyNone
    /\ \E n \in 1..Len(resp.body.notes) :
            /\ resp.body.notes[n].display_number < resp.body.notes[n].note_id
            /\ \E j \in DOMAIN notes :
                    /\ j < resp.body.notes[n].note_id
                    /\ notes[j].user_id # req.user_id

\* the step is a script run of the frontend triggered by widget event
runs(event) == fetched /\ req'.pc = "idle" /\ front'.event = event

\* the widgets that end a pending deletion or edit without confirming it:
\* "No, keep it", "Cancel" and "Skip", and the two buttons offered under
\* "Undo delete", "Restore note" and "Keep deleted"
Cancelling == {"pending_delete_no", "edit_skip", "pending_delete_restore",
               "pending_delete_keep"}

\* C30: in the assistant flow a query with a delete or edit keyword is not
\* forwarded to /nl-query and sends no DELETE or PUT: the run only records
\* a pending note; a DELETE or PUT is sent only by a run that an explicit
\* confirm or submit widget triggered, for the note that is pending; and a
\* run triggered by a cancelling widget clears the pending note and sends
\* no request, so that the store stays as it is.
C30_AssistantAsksFirst ==
    [][ /\ (runs("nl_query_form")
                /\ any_in(lower(front'.query), FrontDeleteWords \cup FrontEditWords))
            => /\ front'.out = <<>>
               /\ notes' = notes
               /\ front'.pending_note_details = front.pending_note_details
        /\ (front.out = <<>> /\ front'.out # <<>> /\ front'.out[1].method = "DELETE")
            => /\ front'.event = "pending_delete_yes"
               /\ front.pending_delete_note # <<>>
               /\ front'.out[1].note_id = front.pending_delete_note[1].note_id
        /\ (front.out = <<>> /\ front'.out # <<>> /\ front'.out[1].method = "PUT")
            => \/ /\ front'.event \in EditForms
                  /\ front.pending_edit_note # <<>>
                  /\ front'.out[1].note_id = front.pending_edit_note[1].note_id
               \/ /\ front'.event = "pending_details_form"
                  /\ front.pending_note_details # <<>>
                  /\ front'.out[1].note_id = front.pending_note_details[1].note_id
        /\ (\E event \in Cancelling : runs(event))
            => /\ front'.out = <<>>
               /\ notes' = notes
               /\ front'.event = "edit_skip" => front'.pending_edit_note = <<>>
               /\ front'.event # "edit_skip" => front'.pending_delete_note = <<>>
      ]_vars

====
